---- MODULE Spec2Model ----
(***************************************************************************)
(* Verification model of plusultra-core-js: the SecretBox container        *)
(* (util/crypto/crypto.js) and login creation (modules/login/create.js).   *)
(* Byte arrays are sequences over 0..255, indexed from 1; the source's     *)
(* 0-based index i is position i + 1.                                      *)
(***************************************************************************)
EXTENDS Integers, Sequences, FiniteSets, TLC

\* ------------------------------------------------------------------------
\* Bounds of the model
\* ------------------------------------------------------------------------
MaxDataLen == 2
NumSeeds == 1

\* ------------------------------------------------------------------------
\* Program constants
\* ------------------------------------------------------------------------
BlockSize == 16
hashSize == 32
KeySize == 32

Byte == 0..255
Undefined == -1
NaN == -2

\* ------------------------------------------------------------------------
\* Byte helpers
\* ------------------------------------------------------------------------
\* The element of a one-element set.  A value that is used many times is
\* bound as the element of a one-element set, so that it is computed once.
Only(S) == CHOOSE x \in S : TRUE

\* the bit of weight w of a XOR b
XorBit(a, b, w) == (((a \div w) + (b \div w)) % 2) * w

Xor(a, b) ==
  XorBit(a, b, 1) + XorBit(a, b, 2) + XorBit(a, b, 4) + XorBit(a, b, 8)
  + XorBit(a, b, 16) + XorBit(a, b, 32) + XorBit(a, b, 64)
  + XorBit(a, b, 128)

\* raw.subarray(begin, end) of a typed array: both ends clamped to the array,
\* NaN counts as 0, an empty range gives an empty array.
subarray(arr, begin, end) ==
  LET b == IF begin = NaN \/ begin < 0 THEN 0
           ELSE IF begin > Len(arr) THEN Len(arr) ELSE begin
      e == IF end = NaN \/ end < 0 THEN 0
           ELSE IF end > Len(arr) THEN Len(arr) ELSE end
  IN IF e <= b THEN << >> ELSE SubSeq(arr, b + 1, e)

\* arr[i] of a typed array: undefined outside the array and for a NaN index.
At(arr, i) ==
  IF i = NaN \/ i = Undefined \/ i < 0 \/ i >= Len(arr) THEN Undefined
  ELSE arr[i + 1]

\* ------------------------------------------------------------------------
\* The random source io.random(n): a stream of bytes.  The stream is given
\* by explicit leading bytes (head) followed by generated bytes; pos counts
\* the bytes already handed out.
\* ------------------------------------------------------------------------
Gen(seed, i) == ((seed + 1) * (i * 73 + 41) + i * i * 7 + seed * 151) % 256

StreamByte(io, i) ==
  IF i <= Len(io.head) THEN io.head[i] ELSE Gen(io.seed, i)

random(io, n) == [i \in 1..n |-> StreamByte(io, io.pos + i)]

Advance(io, n) == [io EXCEPT !.pos = @ + n]

\* ------------------------------------------------------------------------
\* Text encodings (util/encoding.js): a hex string is a sequence of digit
\* values 0..15, a base64 string a sequence of digit values 0..63 with 64
\* standing for the '=' padding character.
\* ------------------------------------------------------------------------
Base64Pad == 64

Base16Digits(bytes) ==
  [i \in 1..(2 * Len(bytes)) |->
     IF (i % 2) = 1 THEN (bytes[(i + 1) \div 2] \div 16)
     ELSE (bytes[i \div 2] % 16)]

base16stringify(bytes) == Only({Base16Digits(b) : b \in {bytes}})

Base16Bytes(text) ==
  [i \in 1..(Len(text) \div 2) |-> text[2 * i - 1] * 16 + text[2 * i]]

base16parse(text) == Only({Base16Bytes(t) : t \in {text}})

Base64Digits(bytes) ==
  LET n == Len(bytes)
      groups == (n + 2) \div 3
      B(i) == IF i <= n THEN bytes[i] ELSE 0
      Digit(g, k) ==
        LET b1 == B(3 * g - 2)
            b2 == B(3 * g - 1)
            b3 == B(3 * g)
        IN CASE k = 1 -> b1 \div 4
             [] k = 2 -> ((b1 % 4) * 16) + (b2 \div 16)
             [] k = 3 -> IF 3 * g - 1 > n THEN Base64Pad
                         ELSE ((b2 % 16) * 4) + (b3 \div 64)
             [] k = 4 -> IF 3 * g > n THEN Base64Pad ELSE (b3 % 64)
  IN [i \in 1..(4 * groups) |-> Digit((i + 3) \div 4, ((i - 1) % 4) + 1)]

base64stringify(bytes) == Only({Base64Digits(b) : b \in {bytes}})

Base64Bytes(text) ==
  LET groups == Len(text) \div 4
      pads == Cardinality({i \in 1..Len(text) : text[i] = Base64Pad})
      n == 3 * groups - pads
      D(i) == IF text[i] = Base64Pad THEN 0 ELSE text[i]
      ByteAt(j) ==
        LET g == (j + 2) \div 3
            k == ((j - 1) % 3) + 1
            d1 == D(4 * g - 3)
            d2 == D(4 * g - 2)
            d3 == D(4 * g - 1)
            d4 == D(4 * g)
        IN CASE k = 1 -> (d1 * 4) + (d2 \div 16)
             [] k = 2 -> ((d2 % 16) * 16) + (d3 \div 4)
             [] k = 3 -> ((d3 % 4) * 64) + d4
  IN [j \in 1..n |-> ByteAt(j)]

base64parse(text) == Only({Base64Bytes(t) : t \in {text}})

\* ------------------------------------------------------------------------
\* Cryptographic primitives.  hash.js SHA-256 and aes-js AES-256-CBC are
\* external libraries; they are modelled by reduced functions of the same
\* shape: a 32-byte digest in which every byte depends on every input byte
\* and on the input length, and a keyed bijection on 16-byte blocks in which
\* a change of one byte spreads over the whole block in both directions.
\* ------------------------------------------------------------------------
Sub(v) == (v * (2 * v + 1)) % 256

HashTerm(k, i, x) ==
  CASE k = 1 -> x + 1
    [] k = 2 -> (i * (x + 1)) % 65521
    [] k = 3 -> ((x + i) * (x + 7)) % 65521
    [] k = 4 -> ((x * x + 3 * i) * (i + 11)) % 65521

RECURSIVE HashSum(_, _, _, _)
HashSum(bytes, k, lo, hi) ==
  IF lo > hi THEN 0
  ELSE IF lo = hi THEN HashTerm(k, lo, bytes[lo])
  ELSE LET mid == (lo + hi) \div 2
       IN (HashSum(bytes, k, lo, mid) + HashSum(bytes, k, mid + 1, hi)) % 65521

HashWords(bytes) ==
  Only({<< st[1] % 256, st[1] \div 256, st[2] % 256, st[2] \div 256,
           st[3] % 256, st[3] \div 256, st[4] % 256, st[4] \div 256 >>
        : st \in {[k \in 1..4 |-> HashSum(b, k, 1, Len(b))] : b \in {bytes}}})

sha256(bytes) ==
  Only({[i \in 1..hashSize |->
           Sub((W[((i - 1) % 8) + 1]
                + Sub((W[((i + 2) % 8) + 1] + 3 * i) % 256)) % 256)]
        : W \in {HashWords(bytes)}})

\* The block cipher is a Feistel network of four rounds over the two
\* 8-byte halves of a block; round r is keyed by bytes 8r-7..8r of the key.
Mix(half) ==
  (half[1] + 3 * half[2] + 5 * half[3] + 7 * half[4] + 11 * half[5]
   + 13 * half[6] + 17 * half[7] + 19 * half[8]) % 256

RoundKey(key, r) == SubSeq(key, 8 * r - 7, 8 * r)

FeistelF(half, rk) ==
  Only({[i \in 1..8 |-> Sub((Mix(h) + Sub((h[i] + k[i]) % 256) + i) % 256)]
        : h \in {half}, k \in {rk}})

\* (L, R) -> (R, L + F(R))
FeistelRound(block, rk) ==
  Only({SubSeq(b, 9, 16) \o [i \in 1..8 |-> (b[i] + f[i]) % 256]
        : << b, f >> \in {<< b1, FeistelF(SubSeq(b1, 9, 16), rk) >>
                           : b1 \in {block}}})

\* (L', R') -> (R' - F(L'), L')
FeistelUnround(block, rk) ==
  Only({[i \in 1..8 |-> (b[8 + i] + 256 - f[i]) % 256] \o SubSeq(b, 1, 8)
        : << b, f >> \in {<< b1, FeistelF(SubSeq(b1, 1, 8), rk) >>
                           : b1 \in {block}}})

AesEncryptBlock(key, block) ==
  FeistelRound(FeistelRound(FeistelRound(FeistelRound(block,
    RoundKey(key, 1)), RoundKey(key, 2)), RoundKey(key, 3)), RoundKey(key, 4))

AesDecryptBlock(key, block) ==
  FeistelUnround(FeistelUnround(FeistelUnround(FeistelUnround(block,
    RoundKey(key, 4)), RoundKey(key, 3)), RoundKey(key, 2)), RoundKey(key, 1))

XorBlock(a, b) ==
  Only({[i \in 1..Len(x) |-> Xor(x[i], y[i])] : x \in {a}, y \in {b}})

BlockAt(bytes, n) == SubSeq(bytes, (n - 1) * BlockSize + 1, n * BlockSize)

\* new AesCbc(key, iv).encrypt(plaintext): each block is XORed with the
\* previous ciphertext block (the iv for the first) and then encrypted.
RECURSIVE CbcEncryptFrom(_, _, _, _)
CbcEncryptFrom(key, prev, plaintext, n) ==
  IF n * BlockSize > Len(plaintext) THEN << >>
  ELSE Only({c \o CbcEncryptFrom(key, c, plaintext, n + 1)
             : c \in {AesEncryptBlock(key,
                        XorBlock(BlockAt(plaintext, n), prev))}})

AesCbcEncrypt(key, iv, plaintext) ==
  Only({CbcEncryptFrom(k, v, p, 1)
        : k \in {key}, v \in {iv}, p \in {plaintext}})

\* new AesCbc(key, iv).decrypt(ciphertext): each block is decrypted and
\* XORed with the previous ciphertext block (the iv for the first).
CbcDecryptBlock(key, iv, ciphertext, n) ==
  XorBlock(AesDecryptBlock(key, BlockAt(ciphertext, n)),
           IF n = 1 THEN iv ELSE BlockAt(ciphertext, n - 1))

AesCbcDecrypt(key, iv, ciphertext) ==
  Only({[j \in 1..(BlockSize * Len(blocks)) |->
           blocks[((j - 1) \div BlockSize) + 1][((j - 1) % BlockSize) + 1]]
        : blocks \in {[n \in 1..(Len(c) \div BlockSize) |->
                         CbcDecryptBlock(k, v, c, n)]
                      : k \in {key}, v \in {iv}, c \in {ciphertext}}})

\* aes-js rejects an iv that is not 16 bytes and a text that is not a whole
\* number of blocks.
AesCbcAccepts(iv, text) == Len(iv) = BlockSize /\ (Len(text) % BlockSize) = 0

\* ------------------------------------------------------------------------
\* encrypt (util/crypto/crypto.js)
\* ------------------------------------------------------------------------
\* io.random(1)[0] & 0x1f
SizeMask(b) == b % 32

\* (variant: no padding at all when the buffer is already block-aligned)
PaddingSizeNoFullBlock(paddingStart) ==
  (BlockSize - (paddingStart % BlockSize)) % BlockSize

\* 16 - (paddingStart & 0xf)
PaddingSize(paddingStart) == BlockSize - (paddingStart % BlockSize)

\* (variant: the payload length written little-endian)
DataSizeByteLittleEndian(dataSize, k) ==
  CASE k = 4 -> (dataSize \div 16777216) % 256
    [] k = 3 -> (dataSize \div 65536) % 256
    [] k = 2 -> (dataSize \div 256) % 256
    [] k = 1 -> dataSize % 256

\* byte k (1..4) of the payload length: (dataSize >> 24) & 0xff, ...
DataSizeByte(dataSize, k) ==
  CASE k = 1 -> (dataSize \div 16777216) % 256
    [] k = 2 -> (dataSize \div 65536) % 256
    [] k = 3 -> (dataSize \div 256) % 256
    [] k = 4 -> dataSize % 256

\* The bytes of raw before the hash: written index by index into a
\* zero-filled array of paddingStart + paddingSize bytes.
RawFilled(headerSize, header, dataSize, data, footerSize, footer, size) ==
  LET dataStart == 1 + headerSize + 4
      footerStart == dataStart + dataSize + 1
      hashStart == footerStart + footerSize
  IN [p \in 1..size |->
        LET i == p - 1
        IN IF i = 0 THEN headerSize
           ELSE IF i < 1 + headerSize THEN header[i]
           ELSE IF i < dataStart THEN DataSizeByte(dataSize, i - headerSize)
           ELSE IF i < dataStart + dataSize THEN data[i - dataStart + 1]
           ELSE IF i = dataStart + dataSize THEN footerSize
           ELSE IF i < hashStart THEN footer[i - footerStart + 1]
           ELSE 0]

\* raw with the hash and the padding written
RawHashed(filled, hashStart, paddingStart, paddingSize) ==
  Only({[p \in 1..Len(filled) |->
           LET i == p - 1
           IN IF i < hashStart THEN filled[p]
              ELSE IF i < paddingStart THEN hash[i - hashStart + 1]
              ELSE paddingSize]
        : hash \in {sha256(subarray(filled, 0, hashStart))}})

\* The locals of encrypt, in the order the code computes them.
EncryptLocalsOf(io, data) ==
  LET headerSize == SizeMask(random(io, 1)[1])
      io1 == Advance(io, 1)
      dataStart == 1 + headerSize + 4
      dataSize == Len(data)
      footerStart == dataStart + dataSize + 1
      footerSize == SizeMask(random(io1, 1)[1])
      io2 == Advance(io1, 1)
      hashStart == footerStart + footerSize
      paddingStart == hashStart + hashSize
      paddingSize == PaddingSize(paddingStart)
      io3 == Advance(io2, headerSize)
      io4 == Advance(io3, footerSize)
  IN Only({[headerSize |-> headerSize, footerSize |-> footerSize,
            header |-> header, footer |-> footer, hashStart |-> hashStart,
            paddingSize |-> paddingSize,
            raw |-> Only({RawHashed(filled, hashStart, paddingStart,
                                    paddingSize)
                          : filled \in
                            {RawFilled(headerSize, header, dataSize, data,
                                       footerSize, footer,
                                       paddingStart + paddingSize)}}),
            iv |-> random(io4, BlockSize),
            io |-> Advance(io4, BlockSize)]
           : header \in {random(io2, headerSize)},
             footer \in {random(io3, footerSize)}})

EncryptLocals(io, data) ==
  Only({EncryptLocalsOf(r, d) : r \in {io}, d \in {data}})

encrypt(io, data, key) ==
  Only({[encryptionType |-> 0,
         iv_hex |-> base16stringify(l.iv),
         data_base64 |-> base64stringify(AesCbcEncrypt(key, l.iv, l.raw))]
        : l \in {EncryptLocals(io, data)}})

\* the random source after encrypt has drawn from it: two size bytes, the
\* header, the footer and the iv
EncryptDraws(io) ==
  2 + SizeMask(StreamByte(io, io.pos + 1))
    + SizeMask(StreamByte(io, io.pos + 2)) + BlockSize

ioAfterEncrypt(io) == Only({Advance(r, EncryptDraws(r)) : r \in {io}})

\* ------------------------------------------------------------------------
\* decrypt (util/crypto/crypto.js).  The result is either the payload or
\* the Error that was thrown; check names the step that threw.
\* ------------------------------------------------------------------------
Thrown(check, message) ==
  [ok |-> FALSE, name |-> "Error", message |-> message, check |-> check,
   payload |-> << >>]

Returned(payload) ==
  [ok |-> TRUE, name |-> "", message |-> "", check |-> "", payload |-> payload]

\* (variant: only negative types are refused)
TypeSupportedLoose(box) == box.encryptionType >= 0

TypeSupported(box) == box.encryptionType = 0

\* (raw[1 + h] << 24) | (raw[2 + h] << 16) | (raw[3 + h] << 8) | raw[4 + h]
\* as a signed 32-bit integer; undefined operands count as 0.
ReadDataSize(raw, headerSize) ==
  LET B(k) == LET v == IF headerSize = Undefined THEN Undefined
                       ELSE At(raw, k + headerSize)
              IN IF v = Undefined THEN 0 ELSE v
      top == IF B(1) >= 128 THEN B(1) - 256 ELSE B(1)
  IN top * 16777216 + B(2) * 65536 + B(3) * 256 + B(4)

\* (variant: the hash is located but not compared)
ChecksumUnchecked(raw, hashStart, hash) == hashStart # NaN

\* the for loop over the 32 hash bytes
ChecksumOk(raw, hashStart, hash) ==
  \A i \in 0..(hashSize - 1) :
     hashStart # NaN /\ At(raw, hashStart + i) = hash[i + 1]

\* the for loop over the padding bytes
PaddingOk(raw, paddingStart, paddingSize) ==
  \A i \in paddingStart..(Len(raw) - 1) : At(raw, i) = paddingSize

DecryptRaw(raw) ==
  LET headerSize == At(raw, 0)
      dataSize == ReadDataSize(raw, headerSize)
      dataStart == IF headerSize = Undefined THEN NaN ELSE 1 + headerSize + 4
      \* raw[dataStart + dataSize]; the index is outside the array whenever
      \* dataSize is
      footerSize == IF dataStart = NaN \/ dataSize < 0 - dataStart
                       \/ dataSize >= Len(raw)
                    THEN Undefined
                    ELSE At(raw, dataStart + dataSize)
      hashStart == IF footerSize = Undefined THEN NaN
                   ELSE dataStart + dataSize + 1 + footerSize
      paddingStart == hashStart + hashSize
      paddingSize == Len(raw) - paddingStart
  IN IF \E hash \in {sha256(subarray(raw, 0, hashStart))} :
           ~ChecksumOk(raw, hashStart, hash)
       THEN Thrown("checksum", "Invalid checksum")
     ELSE IF paddingSize <= 0
       THEN Thrown("padding", "Missing PKCS7 padding")
     ELSE IF ~PaddingOk(raw, paddingStart, paddingSize)
       THEN Thrown("padding", "Invalid PKCS7 padding")
     ELSE Returned(subarray(raw, dataStart, dataStart + dataSize))

decrypt(box, key) ==
  IF ~TypeSupported(box) THEN Thrown("type", "Unknown encryption type")
  ELSE Only({IF ~AesCbcAccepts(iv, ciphertext)
               THEN Thrown("cipher", "invalid size")
             ELSE Only({DecryptRaw(raw)
                        : raw \in {AesCbcDecrypt(key, iv, ciphertext)}})
             : iv \in {base16parse(box.iv_hex)},
               ciphertext \in {base64parse(box.data_base64)}})

\* hmacSha256(data, key) (util/crypto/crypto.js): hash.js HMAC, modelled by
\* the reduced hash over the key and the data.
hmacSha256(bytes, key) == sha256(key \o sha256(key \o bytes))

\* ------------------------------------------------------------------------
\* Objects.  A JavaScript object is a function from property names to
\* values; a property that is absent or undefined is not in the domain.
\* ------------------------------------------------------------------------
EmptyObject == [f \in {} |-> 0]

Has(obj, f) == f \in DOMAIN obj

\* { ...a, ...b }
Spread(a, b) ==
  Only({[f \in (DOMAIN x) \cup (DOMAIN y) |->
           IF f \in DOMAIN y THEN y[f] ELSE x[f]]
        : x \in {a}, y \in {b}})

\* ------------------------------------------------------------------------
\* Login modules that create.js calls (loginStore.js, scrypt, password.js,
\* pin2.js, keys.js, login.js).
\* ------------------------------------------------------------------------
ScryptN == 131072
ScryptR == 8
ScryptP == 14

\* fixUsername: the normalised user name (upper case ASCII is lowered)
fixUsername(username) ==
  [i \in 1..Len(username) |->
     IF username[i] >= 65 /\ username[i] <= 90 THEN username[i] + 32
     ELSE username[i]]

\* the key derivation: 32 bytes that depend on the secret, the salt and the
\* cost parameters
scrypt(secret, snrp) ==
  sha256(base16parse(snrp.salt_hex) \o secret
         \o << snrp.p % 256, snrp.r % 256, (snrp.n \div 1024) % 256 >>)

\* the fixed parameters user names and password authentication are hashed with
userIdSnrp ==
  [salt_hex |-> base16stringify([i \in 1..32 |-> (i * 11 + 181) % 256]),
   n |-> 16384, r |-> 1, p |-> 1]

passwordAuthSnrp == userIdSnrp

hashUsername(username) == scrypt(fixUsername(username), userIdSnrp)

\* fresh parameters: a random 32-byte salt, the calibrated p
makeSnrp(rio, p) ==
  [salt_hex |-> base16stringify(random(rio, 32)),
   n |-> ScryptN, r |-> ScryptR, p |-> p]

\* The kit that adds a password: the loginKey boxed under the key derived
\* from user name and password with fresh parameters, and an authentication
\* value derived with the fixed parameters.  rio is the random source, p the
\* calibrated cost.
PasswordKitOf(passwordKeySnrp, passwordBox, passwordAuth, rio) ==
  [server |-> [passwordAuth |-> base64stringify(passwordAuth),
               passwordKeySnrp |-> passwordKeySnrp,
               passwordBox |-> passwordBox],
   stash |-> [passwordBox |-> passwordBox,
              passwordKeySnrp |-> passwordKeySnrp],
   login |-> [passwordAuth |-> passwordAuth],
   io |-> rio]

makePasswordKit(rio, p, login, username, password) ==
  Only({PasswordKitOf(passwordKeySnrp,
                      encrypt(Advance(rio, 32), login.loginKey,
                              scrypt(up, passwordKeySnrp)),
                      scrypt(up, passwordAuthSnrp),
                      ioAfterEncrypt(Advance(rio, 32)))
        : up \in {fixUsername(username) \o password},
          passwordKeySnrp \in {makeSnrp(rio, p)}})

\* The kit that adds a PIN: the loginKey boxed under the key derived from
\* user name and PIN with fresh parameters of its own.
Pin2KitOf(pin2KeySnrp, pin2Box, pin2Id, pin2Auth, pin, rio) ==
  [server |-> [pin2Id |-> base64stringify(pin2Id),
               pin2Auth |-> base64stringify(pin2Auth),
               pin2Box |-> pin2Box,
               pin2KeySnrp |-> pin2KeySnrp],
   stash |-> [pin2Box |-> pin2Box, pin2KeySnrp |-> pin2KeySnrp],
   login |-> [pin |-> pin],
   io |-> rio]

makeChangePin2Kit(rio, p, login, username, pin, enableLogin) ==
  Only({Pin2KitOf(pin2KeySnrp,
                  encrypt(Advance(rio, 32), login.loginKey, pin2Key),
                  hmacSha256(fixUsername(username), pin2Key),
                  hmacSha256(pin, pin2Key),
                  pin,
                  ioAfterEncrypt(Advance(rio, 32)))
        : << pin2KeySnrp, pin2Key >> \in
          {<< snrp, scrypt(fixUsername(username) \o pin, snrp) >>
           : snrp \in {makeSnrp(rio, p)}}})

\* A key info {id, type, keys} as the bytes of its JSON text and back.
keyInfoStringify(info) == << 123, info.id, info.type, info.keys, 125 >>

keyInfoParse(bytes) == [id |-> bytes[2], type |-> bytes[3], keys |-> bytes[4]]

\* The kit that attaches a key info: its JSON text boxed under the loginKey.
makeKeysKit(rio, login, keyInfo) ==
  Only({[server |-> [keyBoxes |-> keyBoxes],
         stash |-> [keyBoxes |-> keyBoxes],
         login |-> [keyInfos |-> << keyInfo >>],
         io |-> ioAfterEncrypt(rio)]
        : keyBoxes \in {<< encrypt(rio, keyInfoStringify(keyInfo),
                                   login.loginKey) >>}})

\* `cond ? makeXxxKit(...) : {}`
NoKit(rio) ==
  [server |-> EmptyObject, stash |-> EmptyObject, login |-> EmptyObject,
   io |-> rio]

\* ------------------------------------------------------------------------
\* makeCreateKit (modules/login/create.js)
\* ------------------------------------------------------------------------
\* `parentBox,` in an object literal: the property is undefined without a
\* parent login
ParentBoxOf(l) ==
  IF Has(l, "parentBox") THEN [parentBox |-> l.parentBox] ELSE EmptyObject

\* the `{ loginKey }` handed to makePasswordKit, makeChangePin2Kit, makeKeysKit
PasswordKitLogin(l) == [loginKey |-> l.loginKey]

\* (variant: the PIN kit is handed the loginAuth)
Pin2KitLoginAuth(l) == [loginKey |-> l.loginAuth]

Pin2KitLogin(l) == [loginKey |-> l.loginKey]

KeysKitLogin(l) == [loginKey |-> l.loginKey]

\* the properties of kit.server, kit.stash and kit.login written before the
\* spreads
KitServerBase(l) ==
  Spread([appId |-> l.appId,
          loginAuth |-> base64stringify(l.loginAuth),
          loginAuthBox |-> l.loginAuthBox,
          loginId |-> l.loginId], ParentBoxOf(l))

\* (variant: the stash is given loginAuth where loginAuthBox was meant)
KitStashBaseRawAuth(l) ==
  Spread([appId |-> l.appId,
          loginAuth |-> l.loginAuth,
          loginId |-> l.loginId], ParentBoxOf(l))

KitStashBase(l) ==
  Spread([appId |-> l.appId,
          loginAuthBox |-> l.loginAuthBox,
          loginId |-> l.loginId], ParentBoxOf(l))

KitLoginBase(l) ==
  [appId |-> l.appId,
   loginAuth |-> l.loginAuth,
   loginId |-> l.loginId,
   loginKey |-> l.loginKey,
   keyInfos |-> << >>]

\* (variant: the keys kit is left out of the stash)
KitStashNoKeys(l, passwordKit, pin2Kit, keysKit) ==
  Spread(Spread(KitStashBase(l), passwordKit.stash), pin2Kit.stash)

KitStash(l, passwordKit, pin2Kit, keysKit) ==
  Spread(Spread(Spread(KitStashBase(l), passwordKit.stash), pin2Kit.stash),
         keysKit.stash)

KitServer(l, passwordKit, pin2Kit, keysKit) ==
  Spread(Spread(Spread(KitServerBase(l), passwordKit.server), pin2Kit.server),
         keysKit.server)

KitLogin(l, passwordKit, pin2Kit, keysKit) ==
  Spread(Spread(Spread(KitLoginBase(l), passwordKit.login), pin2Kit.login),
         keysKit.login)

\* (variant: the parentBox is made with the parent's loginAuth)
ParentBoxKeyAuth(parentLogin) == parentLogin.loginAuth

\* the key the parentBox is encrypted with
ParentBoxKey(parentLogin) == parentLogin.loginKey

\* "Figure out login identity": the locals loginId, loginKey, loginAuth,
\* loginAuthBox and parentBox, and the random source after them.
CreateKitLocals(rio, parentLogin, appId, username) ==
  LET hasParent == parentLogin # EmptyObject
      rio1 == IF hasParent THEN Advance(rio, 32) ELSE rio
      rio3 == Advance(rio1, 64)
      rio4 == ioAfterEncrypt(rio3)
  IN Only({Spread([appId |-> appId,
                   loginId |-> base64stringify(loginIdRaw),
                   loginKey |-> loginKey,
                   loginAuth |-> loginAuth,
                   loginAuthBox |-> encrypt(rio3, loginAuth, loginKey),
                   io |-> IF hasParent THEN ioAfterEncrypt(rio4) ELSE rio4],
                  IF hasParent
                    THEN [parentBox |-> encrypt(rio4, loginKey,
                                                ParentBoxKey(parentLogin))]
                    ELSE EmptyObject)
           : loginIdRaw \in {IF hasParent THEN random(rio, 32)
                             ELSE hashUsername(username)},
             loginKey \in {random(rio1, 32)},
             loginAuth \in {random(Advance(rio1, 32), 32)}})

\* "Bundle everything"
BundleKit(l, passwordKit, pin2Kit, keysKit) ==
  [loginId |-> l.loginId,
   serverPath |-> "/v2/login/create",
   server |-> KitServer(l, passwordKit, pin2Kit, keysKit),
   stash |-> KitStash(l, passwordKit, pin2Kit, keysKit),
   login |-> KitLogin(l, passwordKit, pin2Kit, keysKit)]

\* rio is ai.props.io's random source, p the calibrated scrypt cost
makeCreateKit(rio, p, parentLogin, appId, username, opts) ==
  Only({BundleKit(l, passwordKit, pin2Kit, keysKit)
        : << l, passwordKit, pin2Kit, keysKit >> \in
          {<< l2, passwordKit2, pin2Kit2,
              IF Has(opts, "keyInfo")
                THEN makeKeysKit(pin2Kit2.io, KeysKitLogin(l2), opts.keyInfo)
                ELSE NoKit(pin2Kit2.io) >>
           : << l2, passwordKit2, pin2Kit2 >> \in
             {<< l1, passwordKit1,
                 IF Has(opts, "pin")
                   THEN makeChangePin2Kit(passwordKit1.io, p,
                          Pin2KitLogin(l1), username, opts.pin, TRUE)
                   ELSE NoKit(passwordKit1.io) >>
              : << l1, passwordKit1 >> \in
                {<< l0, IF Has(opts, "password")
                          THEN makePasswordKit(l0.io, p, PasswordKitLogin(l0),
                                 username, opts.password)
                          ELSE NoKit(l0.io) >>
                 : l0 \in {CreateKitLocals(rio, parentLogin, appId,
                                           username)}}}}})

\* ------------------------------------------------------------------------
\* createLogin (modules/login/create.js): the kit with the three properties
\* createLogin writes into it before the request is sent
\* ------------------------------------------------------------------------
createLoginKit(rio, p, username, opts) ==
  Only({[k EXCEPT
           !.login = Spread(@, [username |-> fixedName,
                                userId |-> k.login.loginId]),
           !.stash = Spread(@, [username |-> fixedName])]
        : << fixedName, k >> \in
          {<< f, makeCreateKit(rio, p, EmptyObject, "", f, opts) >>
           : f \in {fixUsername(username)}}})

\* the request createLogin hands to authRequest
createRequest(k) ==
  [method |-> "POST", path |-> k.serverPath, data |-> k.server]

\* (variant: the reply handler also runs when the request was rejected)
ThenRunsAlways(promise) == TRUE

\* promise.then(onFulfilled): the handler runs only for a fulfilled promise,
\* a rejection passes through to the promise that then() returned
ThenRuns(promise) == promise.how = "fulfilled"

\* ------------------------------------------------------------------------
\* Logging in from the persisted stash (login.js, password.js, pin2.js)
\* ------------------------------------------------------------------------
NoLogin ==
  [tried |-> FALSE, ok |-> FALSE, username |-> << >>, secret |-> << >>,
   loginKey |-> << >>, loginAuth |-> << >>, keyInfos |-> << >>,
   children |-> << >>]

FailedLogin(username, secret) ==
  [NoLogin EXCEPT !.tried = TRUE, !.username = username, !.secret = secret]

\* the key infos of a stash: every key box that decrypts under the loginKey,
\* parsed; a box that does not decrypt is left out
StashKeyInfos(stash, loginKey) ==
  IF ~Has(stash, "keyBoxes") THEN << >>
  ELSE Only({[i \in 1..Cardinality({j \in 1..Len(rs) : rs[j].ok}) |->
                keyInfoParse(rs[i].payload)]
             : rs \in {SelectSeq([j \in 1..Len(stash.keyBoxes) |->
                                    decrypt(stash.keyBoxes[j], loginKey)],
                                 LAMBDA r : r.ok)}})

\* the children of a node of a login tree or of a stash tree
Children(node) == IF Has(node, "children") THEN node.children ELSE << >>

\* (variant: the walk over the children ends at the first child that does
\* not decrypt)
SiblingsAfterStop(r, rest) == IF r.ok THEN rest ELSE << >>

\* the walk over the children goes on after a child that did not decrypt
SiblingsAfter(r, rest) == rest

RECURSIVE LoginNode(_, _), LoginChildrenFrom(_, _, _)

\* the login of one stash node, its children included
LoginNode(stash, loginKey) ==
  Only({[appId |-> stash.appId,
         loginId |-> stash.loginId,
         loginKey |-> k,
         loginAuth |-> decrypt(stash.loginAuthBox, k).payload,
         keyInfos |-> StashKeyInfos(stash, k),
         children |-> LoginChildrenFrom(Children(stash), k, 1)]
        : k \in {loginKey}})

\* the logins of the children from the i-th on: a child's loginKey is its
\* parentBox decrypted with the loginKey of its parent; a child whose
\* parentBox does not decrypt is left out with all below it
LoginChildrenFrom(cs, loginKey, i) ==
  IF i > Len(cs) THEN << >>
  ELSE Only({(IF r.ok THEN << LoginNode(cs[i], r.payload) >> ELSE << >>)
               \o SiblingsAfter(r, LoginChildrenFrom(cs, loginKey, i + 1))
             : r \in {IF Has(cs[i], "parentBox")
                        THEN decrypt(cs[i].parentBox, loginKey)
                        ELSE Thrown("cipher", "no parentBox")}})

\* makeLoginTree: the login rebuilt from a stash and its loginKey
makeLoginTree(stash, loginKey, username, secret) ==
  Only({[tried |-> TRUE,
         ok |-> auth.ok,
         username |-> username,
         secret |-> secret,
         loginKey |-> loginKey,
         loginAuth |-> auth.payload,
         keyInfos |-> StashKeyInfos(stash, loginKey),
         children |-> IF auth.ok
                        THEN LoginChildrenFrom(Children(stash), loginKey, 1)
                        ELSE << >>]
        : auth \in {decrypt(stash.loginAuthBox, loginKey)}})

\* the login a factor's box gives: the key is derived again from the user
\* name, the secret and the parameters stored next to the box, the box is
\* decrypted with it, and the payload is the loginKey of the stash
LoginWithBox(stash, boxName, snrpName, username, secret) ==
  IF \/ ~Has(stash, "username")
     \/ ~Has(stash, boxName)
     \/ ~Has(stash, snrpName)
    THEN FailedLogin(username, secret)
  ELSE IF stash.username # fixUsername(username)
    THEN FailedLogin(username, secret)
  ELSE Only({IF r.ok
               THEN makeLoginTree(stash, r.payload, username, secret)
               ELSE FailedLogin(username, secret)
             : r \in {decrypt(stash[boxName],
                              scrypt(fixUsername(username) \o secret,
                                     stash[snrpName]))}})

loginPassword(stash, username, password) ==
  LoginWithBox(stash, "passwordBox", "passwordKeySnrp", username, password)

loginPin2(stash, username, pin) ==
  LoginWithBox(stash, "pin2Box", "pin2KeySnrp", username, pin)

\* ------------------------------------------------------------------------
\* calcSnrpForTarget (modules/scrypt/scrypt-pixie.js), with the values that
\* snrp.test.js expects of it
\* ------------------------------------------------------------------------
MinP == 1
MaxP == 64

\* the time one derivation is estimated to take, in ms, on a device whose
\* benchmark took benchMs: it grows with n, with r and with p
EstimatedMs(n, r, p, benchMs) ==
  (benchMs * r * (n \div 32768) * (p + 1)) \div 8

\* (variant: the estimate leaves n out)
UnitMsBenchOnly(benchMs) == benchMs

\* the estimated time that each step of p adds
UnitMs(benchMs) == EstimatedMs(ScryptN, ScryptR, 0, benchMs)

\* (variant: p is the quotient of target and step)
RawPQuotient(benchMs, targetMs) ==
  IF benchMs = 0 THEN MaxP ELSE targetMs \div UnitMs(benchMs)

\* the p the target allows before it is brought into range; a benchmark of
\* 0 ms is a device of unbounded speed
RawP(benchMs, targetMs) ==
  IF benchMs = 0 THEN MaxP ELSE (targetMs \div UnitMs(benchMs)) - 1

\* (variant: p is used as computed)
ClampPNone(p) == p

ClampP(p) == IF p > MaxP THEN MaxP ELSE IF p < MinP THEN MinP ELSE p

calcSnrpForTarget(salt, benchMs, targetMs) ==
  [salt_hex |-> base16stringify(salt),
   n |-> ScryptN,
   r |-> ScryptR,
   p |-> ClampP(RawP(benchMs, targetMs))]

\* ------------------------------------------------------------------------
\* Login trees and stash trees (account/accountState.js, login/login.js)
\* ------------------------------------------------------------------------
RECURSIVE AppLogins(_, _), AppLoginsFrom(_, _, _)

\* the nodes of a tree that have the appId, the node itself first
AppLogins(node, appId) ==
  (IF node.appId = appId THEN << node >> ELSE << >>)
    \o AppLoginsFrom(Children(node), appId, 1)

AppLoginsFrom(cs, appId, i) ==
  IF i > Len(cs) THEN << >>
  ELSE AppLogins(cs[i], appId) \o AppLoginsFrom(cs, appId, i + 1)

\* findAppLogin: the first node with the appId, undefined without one
findAppLogin(tree, appId) ==
  Only({IF Len(found) = 0 THEN EmptyObject ELSE found[1]
        : found \in {AppLogins(tree, appId)}})

RECURSIVE AttachChild(_, _, _)

\* the tree with one more child under the node that has the loginId
AttachChild(node, parentId, child) ==
  IF node.loginId = parentId
    THEN Spread(node, [children |-> Append(Children(node), child)])
  ELSE IF ~Has(node, "children") THEN node
  ELSE Spread(node,
              [children |-> [i \in 1..Len(Children(node)) |->
                               AttachChild(Children(node)[i], parentId,
                                           child)]])

\* createChildLogin: a kit for a new login under the parent is built and
\* applied to the login tree and to the stash tree
createChildLogin(rio, tree, stash, parent, appId) ==
  Only({[tree |-> AttachChild(tree, parent.loginId, k.login),
         stash |-> AttachChild(stash, parent.loginId, k.stash),
         created |-> TRUE]
        : k \in {makeCreateKit(rio, ScryptP, parent, appId, tree.username,
                               EmptyObject)}})

\* (variant: a new login is made whether or not the tree has one)
ensureAccountExistsAlways(rio, tree, stash, appId) ==
  createChildLogin(rio, tree, stash, tree, appId)

\* ensureAccountExists: the login tree and the stash tree with a login for
\* the appId.  A tree that has one is left as it is; otherwise a new login
\* is made under the root.
ensureAccountExists(rio, tree, stash, appId) ==
  IF Len(AppLogins(tree, appId)) > 0
    THEN [tree |-> tree, stash |-> stash, created |-> FALSE]
  ELSE createChildLogin(rio, tree, stash, tree, appId)

RECURSIVE sanitizeLoginStash(_, _)

\* sanitizeLoginStash: the stash with the nodes on the way to the appId
\* only; whatever hangs off that way is cut
sanitizeLoginStash(stash, appId) ==
  IF stash.appId = appId
    THEN [f \in (DOMAIN stash) \ {"children"} |-> stash[f]]
  ELSE Spread(stash,
              [children |->
                 Only({[i \in 1..Len(onWay) |->
                          sanitizeLoginStash(onWay[i], appId)]
                       : onWay \in
                         {SelectSeq(Children(stash),
                                    LAMBDA c :
                                      Len(AppLogins(c, appId)) > 0)}})])

\* ------------------------------------------------------------------------
\* account.checkPin (modules/account/accountApi.js)
\* ------------------------------------------------------------------------
\* checkPin2: the PIN opens the pin2Box of the stash
checkPin2(stash, username, pin) == loginPin2(stash, username, pin).ok

\* (variant: the cached PIN is never looked at)
PinCachedNever(login) == FALSE

\* state.login.pin != null
PinCached(login) == Has(login, "pin")

\* "Try to check the PIN locally, then fall back on the server"
checkPin(login, stash, username, pin) ==
  IF PinCached(login)
    THEN [how |-> "cached", result |-> pin = login.pin]
    ELSE [how |-> "checkPin2", result |-> checkPin2(stash, username, pin)]

\* ------------------------------------------------------------------------
\* approveLoginRequest (modules/account/lobbyApi.js)
\* ------------------------------------------------------------------------
\* (variant: the stash is sent as loginStore returned it)
ReplyStashWhole(stashTree, appId) == stashTree

\* "Create a sanitized login stash object"
ReplyStash(stashTree, appId) == sanitizeLoginStash(stashTree, appId)

\* "Send the reply": the data handed to sendLobbyReply
replyData(appId, requestedLogin, stashTree) ==
  [appId |-> appId,
   loginKey |-> base64stringify(requestedLogin.loginKey),
   loginStash |-> ReplyStash(stashTree, appId)]

\* ------------------------------------------------------------------------
\* State
\* ------------------------------------------------------------------------
VARIABLES
  pc,      \* SecretBox: "idle", "boxed" (encrypt returned),
           \* "done" (decrypt ended)
  io,      \* the random source as encrypt found it
  key,     \* the key given to encrypt
  data,    \* the payload given to encrypt
  raw,     \* the buffer encrypt built before AES encryption
  sent,    \* the box encrypt returned
  box,     \* the box as it reaches decrypt
  mods,    \* what happened to the box in between
  dkey,    \* the key given to decrypt
  result,  \* what decrypt returned or threw
  lpc,       \* createLogin: "idle", "requesting", "saving", "resolved",
             \* "rejected"
  args,      \* the arguments createLogin was called with
  kit,       \* the kit createLogin built
  requests,  \* the requests handed to authRequest, in order
  settled,   \* how the promise of authRequest settled
  serverDb,  \* the login the auth server holds
  stashFile, \* the stash loginStore holds on disk
  loginTree, \* the login createLogin resolved with
  failure,   \* the error createLogin rejected with
  childKit,  \* a kit built for a child of the login
  pwLogin,   \* the outcome of a password login from the stash
  pinLogin,  \* the outcome of a PIN login from the stash
  tpc,       \* the account with a login tree: "idle", "ready"
  tio,       \* its random source
  tTree,     \* accountState.loginTree
  tStash,    \* the stash tree loginStore holds for the account
  approved,  \* the logins approveLoginRequest found, one per call
  reply,     \* the data of the last lobby reply
  corrupted, \* the children whose parentBox was damaged on disk
  keyLogin,  \* the outcome of loginWithKey
  cpc,       \* calcSnrpForTarget: "idle", "done"
  calArgs,   \* its arguments
  snrp,      \* its result
  pinCheck,  \* the last account.checkPin: the account, the PIN, the outcome
  epc,        \* requestPlusultraLogin: "idle", "pending"
  onLoginThrows, \* whether the caller's onLogin throws
  approvals,  \* how many times a remote account approved the request
  deliveries,  \* the results handed to the onLogin of the context, each
              \* with the calls of the caller's onLogin it led to
  spc,  \* syncRequest: "idle", "fetching", "resolved", "rejected"
  syncArgs,  \* its method, path and body
  serverIndex,  \* the server of the fetch in flight
  fetches,  \* the fetches made so far, in order, each with its outcome
  syncResult,  \* what the promise settled with
  mpc,  \* getMaxSpendable: "idle", "search", "spending", "done"
  balance,  \* engine.getBalance
  threshold,  \* the largest amount engine.makeSpend accepts
  range,  \* the min (included) and max (excluded) of getMax, and the mid tried
  spends,  \* the makeSpend calls made
  maxSpendable,  \* what the promise resolved with
  now,  \* Date.now()
  throttleRateLimitMs,  \* the module's rate limit
  throttled,  \* the state of each throttled callback: delayCallback, lastCallbackTime, finalCallbackArg, pendingTxs
  timers,  \* the setTimeout calls that have not fired yet
  throttledCalls,  \* the calls of throttled callbacks so far
  invocations,  \* the calls of each real callback: the time and the argument
  batches,  \* what the last onTransactionsChanged got: "none", "absent", "array"
  lastTxs,  \* the last batch
  txErrors,  \* the onError calls the last batch led to
  txThrown,  \* whether the last call threw
  txDispatched,  \* the actions dispatched for the last batch
  txSetups,  \* the setupNewTxMetadata calls for the last batch
  txListenerCalls,  \* the throttled listener calls for the last batch
  apc,  \* approveLoginRequest and its follow-up: where it is
  approveArgs,  \* its appId and lobbyId
  approveLog,  \* the calls it made, in order
  approveResult,  \* its promise: "pending", "resolved", or the error it rejected with
  approveErrors,  \* the onError calls
  approveTimers,  \* the delays of the timers set and not fired
  exchangePairs,  \* state.exchangeCache.rates.pairs
  exchangeQuery,  \* the last getExchangeRate: fromCurrency and toCurrency
  exchangeRate,  \* what it returned, as a fraction
  customTokens,  \* state.currency.customTokens
  lastAction  \* the action dispatched last

boxVars == << pc, io, key, data, raw, sent, box, mods, dkey, result >>

loginVars == << lpc, args, kit, requests, settled, serverDb, stashFile,
                loginTree, failure, childKit, pwLogin, pinLogin >>

treeVars == << tpc, tio, tTree, tStash, approved, reply, corrupted,
               keyLogin >>

calVars == << cpc, calArgs, snrp >>

accountVars == << pinCheck >>

edgeVars == << epc, onLoginThrows, approvals, deliveries >>

syncVars == << spc, syncArgs, serverIndex, fetches, syncResult >>

maxSpendVars == << mpc, balance, threshold, range, spends, maxSpendable >>

throttleVars == << now, throttleRateLimitMs, throttled, timers, throttledCalls, invocations >>

txVars == << batches, lastTxs, txErrors, txThrown, txDispatched, txSetups, txListenerCalls >>

approveVars == << apc, approveArgs, approveLog, approveResult, approveErrors, approveTimers >>

exchangeVars == << exchangePairs, exchangeQuery, exchangeRate >>

tokensVars == << customTokens, lastAction >>

vars ==
  << boxVars,
     loginVars,
     treeVars,
     calVars,
     accountVars,
     edgeVars,
     syncVars,
     maxSpendVars,
     throttleVars,
     txVars,
     approveVars,
     exchangeVars,
     tokensVars >>

notBoxVars ==
  << loginVars, treeVars, calVars, accountVars, edgeVars, syncVars, maxSpendVars, throttleVars, txVars, approveVars, exchangeVars, tokensVars >>
notLoginVars ==
  << boxVars, treeVars, calVars, accountVars, edgeVars, syncVars, maxSpendVars, throttleVars, txVars, approveVars, exchangeVars, tokensVars >>
notTreeVars ==
  << boxVars, loginVars, calVars, accountVars, edgeVars, syncVars, maxSpendVars, throttleVars, txVars, approveVars, exchangeVars, tokensVars >>
notCalVars ==
  << boxVars, loginVars, treeVars, accountVars, edgeVars, syncVars, maxSpendVars, throttleVars, txVars, approveVars, exchangeVars, tokensVars >>
notAccountVars ==
  << boxVars, loginVars, treeVars, calVars, edgeVars, syncVars, maxSpendVars, throttleVars, txVars, approveVars, exchangeVars, tokensVars >>
notEdgeVars ==
  << boxVars, loginVars, treeVars, calVars, accountVars, syncVars, maxSpendVars, throttleVars, txVars, approveVars, exchangeVars, tokensVars >>
notSyncVars ==
  << boxVars, loginVars, treeVars, calVars, accountVars, edgeVars, maxSpendVars, throttleVars, txVars, approveVars, exchangeVars, tokensVars >>
notMaxSpendVars ==
  << boxVars, loginVars, treeVars, calVars, accountVars, edgeVars, syncVars, throttleVars, txVars, approveVars, exchangeVars, tokensVars >>
notThrottleVars ==
  << boxVars, loginVars, treeVars, calVars, accountVars, edgeVars, syncVars, maxSpendVars, txVars, approveVars, exchangeVars, tokensVars >>
notTxVars ==
  << boxVars, loginVars, treeVars, calVars, accountVars, edgeVars, syncVars, maxSpendVars, throttleVars, approveVars, exchangeVars, tokensVars >>
notApproveVars ==
  << boxVars, loginVars, treeVars, calVars, accountVars, edgeVars, syncVars, maxSpendVars, throttleVars, txVars, exchangeVars, tokensVars >>
notExchangeVars ==
  << boxVars, loginVars, treeVars, calVars, accountVars, edgeVars, syncVars, maxSpendVars, throttleVars, txVars, approveVars, tokensVars >>
notTokensVars ==
  << boxVars, loginVars, treeVars, calVars, accountVars, edgeVars, syncVars, maxSpendVars, throttleVars, txVars, approveVars, exchangeVars >>

NoBox == [encryptionType |-> 0, iv_hex |-> << >>, data_base64 |-> << >>]
NoResult == [ok |-> FALSE, name |-> "", message |-> "", check |-> "none",
             payload |-> << >>]
NoIo == [head |-> << >>, seed |-> 0, pos |-> 0]

\* ------------------------------------------------------------------------
\* Inputs
\* ------------------------------------------------------------------------
DataBytes == {0, 255}
Datas == UNION {[1..n -> DataBytes] : n \in 0..MaxDataLen}
\* bytes the random source may return for the two size draws
\* (header, footer)
SizeDraws == {<< 0, 0 >>, << 10, 0 >>, << 255, 10 >>, << 37, 255 >>}
Seeds == 1..NumSeeds
KeyIds == 1..(NumSeeds + 1)
Key(k) == [i \in 1..KeySize |-> (k * 89 + i * 57) % 256]
OtherTypes == {1, -1}

Usernames == {<< 65, 98 >>, << 97, 98 >>}
Passwords == {<< 104, 50 >>, << 49 >>}
Pins == {<< 49 >>, << 50 >>}
KeyInfos == {[id |-> 7, type |-> 3, keys |-> 200]}
AppIds == {"app"}
\* the options createLogin may be given
CreateOpts ==
  {EmptyObject}
    \cup {[password |-> w] : w \in Passwords}
    \cup {[pin |-> n] : n \in Pins}
    \cup {[password |-> w, pin |-> n] : w \in Passwords, n \in Pins}
    \cup {[password |-> w, keyInfo |-> k] : w \in Passwords, k \in KeyInfos}
    \cup {[password |-> w, pin |-> n, keyInfo |-> k]
          : w \in Passwords, n \in Pins, k \in KeyInfos}
\* the options a child login may be given
ChildOpts == {EmptyObject} \cup {[keyInfo |-> k] : k \in KeyInfos}
RequestErrors == {"ServerError", "NetworkError"}

\* ------------------------------------------------------------------------
\* SecretBox operations
\* ------------------------------------------------------------------------
BoxInit ==
  /\ pc = "idle"
  /\ io = NoIo
  /\ key = << >>
  /\ data = << >>
  /\ raw = << >>
  /\ sent = NoBox
  /\ box = NoBox
  /\ mods = {}
  /\ dkey = << >>
  /\ result = NoResult

Encrypt(d, sizes, seed) ==
  /\ pc = "idle"
  /\ LET io0 == [head |-> sizes, seed |-> seed, pos |-> 0]
     IN /\ io' = io0
        /\ raw' = EncryptLocals(io0, d).raw
        /\ sent' = encrypt(io0, d, Key(seed))
        /\ box' = sent'
  /\ data' = d
  /\ key' = Key(seed)
  /\ pc' = "boxed"
  /\ UNCHANGED << mods, dkey, result >>
  /\ UNCHANGED notBoxVars

\* one bit of the ciphertext is flipped between encrypt and decrypt
FlipBitOf(bytes, n) ==
  LET i == (n \div 8) + 1
      w == 2 ^ (n % 8)
  IN [bytes EXCEPT ![i] = IF ((@ \div w) % 2) = 1 THEN @ - w ELSE @ + w]

FlipBit(n) ==
  /\ pc = "boxed"
  /\ mods = {}
  /\ LET ciphertext == base64parse(box.data_base64)
     IN /\ n < 8 * Len(ciphertext)
        /\ box' = [box EXCEPT
                     !.data_base64 = base64stringify(FlipBitOf(ciphertext, n))]
  /\ mods' = {"flip"}
  /\ UNCHANGED << pc, io, key, data, raw, sent, dkey, result >>
  /\ UNCHANGED notBoxVars

\* the last block of the ciphertext is lost
Truncate ==
  /\ pc = "boxed"
  /\ mods = {}
  /\ LET ciphertext == base64parse(box.data_base64)
     IN box' = [box EXCEPT !.data_base64 =
                  base64stringify(SubSeq(ciphertext, 1,
                                         Len(ciphertext) - BlockSize))]
  /\ mods' = {"truncate"}
  /\ UNCHANGED << pc, io, key, data, raw, sent, dkey, result >>
  /\ UNCHANGED notBoxVars

\* the iv is cut short
ShortIv ==
  /\ pc = "boxed"
  /\ mods = {}
  /\ box' = [box EXCEPT !.iv_hex = SubSeq(@, 1, Len(@) - 2)]
  /\ mods' = {"iv"}
  /\ UNCHANGED << pc, io, key, data, raw, sent, dkey, result >>
  /\ UNCHANGED notBoxVars

\* the box names another encryption type
SetType(t) ==
  /\ pc = "boxed"
  /\ "type" \notin mods
  /\ "flip" \notin mods
  /\ box' = [box EXCEPT !.encryptionType = t]
  /\ mods' = mods \cup {"type"}
  /\ UNCHANGED << pc, io, key, data, raw, sent, dkey, result >>
  /\ UNCHANGED notBoxVars

Decrypt(k) ==
  /\ pc = "boxed"
  /\ Key(k) = key \/ "flip" \notin mods
  /\ dkey' = Key(k)
  /\ result' = decrypt(box, Key(k))
  /\ pc' = "done"
  /\ UNCHANGED << io, key, data, raw, sent, box, mods >>
  /\ UNCHANGED notBoxVars

\* the longest buffer encrypt can build: 1 + 31 + 4 + data + 1 + 31 + 32
\* bytes and up to 16 of padding
MaxRawLen == 100 + MaxDataLen + BlockSize

BoxNext ==
  \/ \E d \in Datas, sizes \in SizeDraws, seed \in Seeds :
        Encrypt(d, sizes, seed)
  \/ \E n \in 0..(8 * MaxRawLen - 1) : FlipBit(n)
  \/ Truncate
  \/ ShortIv
  \/ \E t \in OtherTypes : SetType(t)
  \/ \E k \in KeyIds : Decrypt(k)

\* ------------------------------------------------------------------------
\* createLogin and the logins that follow it
\* ------------------------------------------------------------------------
NoArgs == [username |-> << >>, opts |-> EmptyObject, seed |-> 0]

\* the promise of authRequest
Pending == [how |-> "pending", error |-> ""]
Fulfilled == [how |-> "fulfilled", error |-> ""]
Rejected(e) == [how |-> "rejected", error |-> e]

LoginInit ==
  /\ lpc = "idle"
  /\ args = NoArgs
  /\ kit = EmptyObject
  /\ requests = << >>
  /\ settled = Pending
  /\ serverDb = EmptyObject
  /\ stashFile = EmptyObject
  /\ loginTree = EmptyObject
  /\ failure = ""
  /\ childKit = EmptyObject
  /\ pwLogin = NoLogin
  /\ pinLogin = NoLogin

\* createLogin up to the call of authRequest
CreateLogin(username, opts, seed) ==
  /\ lpc = "idle"
  /\ args' = [username |-> username, opts |-> opts, seed |-> seed]
  /\ kit' = createLoginKit([head |-> << >>, seed |-> seed, pos |-> 0],
                           ScryptP, username, opts)
  /\ requests' = Append(requests, createRequest(kit'))
  /\ lpc' = "requesting"
  /\ UNCHANGED << settled, serverDb, stashFile, loginTree, failure, childKit,
                  pwLogin, pinLogin >>
  /\ UNCHANGED notLoginVars

\* what follows the promise of authRequest: the reply handler calls
\* loginStore.save, a rejection rejects createLogin
AfterRequest(promise) ==
  IF ThenRuns(promise)
    THEN /\ lpc' = "saving"
         /\ failure' = failure
    ELSE /\ lpc' = "rejected"
         /\ failure' = promise.error

\* the auth server stores the login and replies
AuthAccept ==
  /\ lpc = "requesting"
  /\ serverDb' = requests[Len(requests)].data
  /\ settled' = Fulfilled
  /\ AfterRequest(Fulfilled)
  /\ UNCHANGED << args, kit, requests, stashFile, loginTree, childKit,
                  pwLogin, pinLogin >>
  /\ UNCHANGED notLoginVars

\* the auth server rejects the request, or the request does not reach it
AuthReject(e) ==
  /\ lpc = "requesting"
  /\ settled' = Rejected(e)
  /\ AfterRequest(Rejected(e))
  /\ UNCHANGED << args, kit, requests, serverDb, stashFile, loginTree,
                  childKit, pwLogin, pinLogin >>
  /\ UNCHANGED notLoginVars

\* loginStore.save succeeds and createLogin resolves with kit.login
SaveOk ==
  /\ lpc = "saving"
  /\ stashFile' = kit.stash
  /\ loginTree' = kit.login
  /\ lpc' = "resolved"
  /\ UNCHANGED << args, kit, requests, settled, serverDb, failure, childKit,
                  pwLogin, pinLogin >>
  /\ UNCHANGED notLoginVars

\* loginStore.save fails and createLogin rejects with its error
SaveFail ==
  /\ lpc = "saving"
  /\ failure' = "DiskError"
  /\ lpc' = "rejected"
  /\ UNCHANGED << args, kit, requests, settled, serverDb, stashFile,
                  loginTree, childKit, pwLogin, pinLogin >>
  /\ UNCHANGED notLoginVars

\* (variant: the kit is saved as soon as it is built)
MakeChildKitCommitting(appId, opts) ==
  /\ lpc = "resolved"
  /\ childKit = EmptyObject
  /\ pwLogin = NoLogin
  /\ pinLogin = NoLogin
  /\ childKit' = makeCreateKit([head |-> << >>, seed |-> args.seed,
                                pos |-> 1000],
                               ScryptP, loginTree, appId, loginTree.username,
                               opts)
  /\ stashFile' = childKit'.stash
  /\ UNCHANGED << lpc, args, kit, requests, settled, serverDb,
                  loginTree, failure, pwLogin, pinLogin >>
  /\ UNCHANGED notLoginVars

\* makeCreateKit for a child of the login createLogin resolved with
MakeChildKit(appId, opts) ==
  /\ lpc = "resolved"
  /\ childKit = EmptyObject
  /\ pwLogin = NoLogin
  /\ pinLogin = NoLogin
  /\ childKit' = makeCreateKit([head |-> << >>, seed |-> args.seed,
                                pos |-> 1000],
                               ScryptP, loginTree, appId, loginTree.username,
                               opts)
  /\ UNCHANGED << lpc, args, kit, requests, settled, serverDb, stashFile,
                  loginTree, failure, pwLogin, pinLogin >>
  /\ UNCHANGED notLoginVars

\* loginWithPassword, from the stash on disk
LoginWithPassword(username, password) ==
  /\ lpc = "resolved"
  /\ childKit = EmptyObject
  /\ ~pwLogin.tried
  /\ pwLogin' = loginPassword(stashFile, username, password)
  /\ UNCHANGED << lpc, args, kit, requests, settled, serverDb, stashFile,
                  loginTree, failure, childKit, pinLogin >>
  /\ UNCHANGED notLoginVars

\* loginWithPIN, from the stash on disk
LoginWithPIN(username, pin) ==
  /\ lpc = "resolved"
  /\ childKit = EmptyObject
  /\ ~pinLogin.tried
  /\ pinLogin' = loginPin2(stashFile, username, pin)
  /\ UNCHANGED << lpc, args, kit, requests, settled, serverDb, stashFile,
                  loginTree, failure, childKit, pwLogin >>
  /\ UNCHANGED notLoginVars

NoPinCheck ==
  [asked |-> FALSE, account |-> "", pin |-> << >>, how |-> "",
   result |-> FALSE]

AccountInit == pinCheck = NoPinCheck

\* the accounts checkPin may be called on: the one createAccount made and
\* the one loginWithPassword made
Accounts == {"newAccount", "passwordLogin"}

\* state.login of an account
AccountLogin(account) ==
  IF account = "newAccount" THEN loginTree ELSE pwLogin

\* account.checkPin(pin)
CheckPin(account, pin) ==
  /\ lpc = "resolved"
  /\ childKit = EmptyObject
  /\ account = "passwordLogin" => pwLogin.ok
  /\ ~pinCheck.asked
  /\ \E r \in {checkPin(AccountLogin(account), stashFile,
                        stashFile.username, pin)} :
        pinCheck' = [asked |-> TRUE, account |-> account, pin |-> pin,
                     how |-> r.how, result |-> r.result]
  /\ UNCHANGED notAccountVars

LoginNext ==
  \/ \E u \in Usernames, o \in CreateOpts, seed \in Seeds :
        CreateLogin(u, o, seed)
  \/ AuthAccept
  \/ \E e \in RequestErrors : AuthReject(e)
  \/ SaveOk
  \/ SaveFail
  \/ \E a \in AppIds, o \in ChildOpts : MakeChildKit(a, o)
  \/ \E u \in Usernames, w \in Passwords : LoginWithPassword(u, w)
  \/ \E u \in Usernames, n \in Pins : LoginWithPIN(u, n)
  \/ \E a \in Accounts, n \in Pins : CheckPin(a, n)

\* ------------------------------------------------------------------------
\* An account with a login tree: approveLoginRequest, loginWithKey
\* ------------------------------------------------------------------------
MaxApprovals == 3

TreeUsername == << 97, 98 >>
TreePin == << 49 >>
RequestAppIds == {"app", "other"}
NestedAppIds == {"deep"}

TreeInit ==
  /\ tpc = "idle"
  /\ tio = NoIo
  /\ tTree = EmptyObject
  /\ tStash = EmptyObject
  /\ approved = << >>
  /\ reply = EmptyObject
  /\ corrupted = {}
  /\ keyLogin = NoLogin

\* an account is created and logged in: its login tree and its stash
TreeCreate(seed) ==
  /\ tpc = "idle"
  /\ \E k \in {createLoginKit([head |-> << >>, seed |-> seed, pos |-> 0],
                              ScryptP, TreeUsername, [pin |-> TreePin])} :
        /\ tTree' = k.login
        /\ tStash' = k.stash
  /\ tio' = [head |-> << >>, seed |-> seed, pos |-> 1000]
  /\ tpc' = "ready"
  /\ UNCHANGED << approved, reply, corrupted, keyLogin >>
  /\ UNCHANGED notTreeVars

\* an app login makes a login of its own below itself
CreateChildLogin(parentAppId, appId) ==
  /\ tpc = "ready"
  /\ corrupted = {}
  /\ ~keyLogin.tried
  /\ Len(AppLogins(tTree, parentAppId)) > 0
  /\ Len(AppLogins(tTree, appId)) = 0
  /\ \E e \in {createChildLogin(tio, tTree, tStash,
                                findAppLogin(tTree, parentAppId), appId)} :
        /\ tTree' = e.tree
        /\ tStash' = e.stash
  /\ tio' = Advance(tio, 1000)
  /\ UNCHANGED << tpc, approved, reply, corrupted, keyLogin >>
  /\ UNCHANGED notTreeVars

\* approveLoginRequest up to the call of sendLobbyReply
ApproveLoginRequest(appId) ==
  /\ tpc = "ready"
  /\ corrupted = {}
  /\ ~keyLogin.tried
  /\ Len(approved) < MaxApprovals
  /\ \E e \in {ensureAccountExists(tio, tTree, tStash, appId)} :
       \E requestedLogin \in {findAppLogin(e.tree, appId)} :
          /\ DOMAIN requestedLogin # {}
          /\ tTree' = e.tree
          /\ tStash' = e.stash
          /\ tio' = IF e.created THEN Advance(tio, 1000) ELSE tio
          /\ approved' = Append(approved,
                                [appId |-> appId,
                                 loginId |-> requestedLogin.loginId,
                                 loginKey |-> requestedLogin.loginKey,
                                 created |-> e.created])
          /\ reply' = replyData(appId, requestedLogin, e.stash)
  /\ UNCHANGED << tpc, corrupted, keyLogin >>
  /\ UNCHANGED notTreeVars

\* the parentBox of the i-th child of the stash on disk is damaged
CorruptChild(i) ==
  /\ tpc = "ready"
  /\ corrupted = {}
  /\ ~keyLogin.tried
  /\ i \in 1..Len(Children(tStash))
  /\ \E child \in {tStash.children[i]} :
       \E damaged \in
          {[child EXCEPT !.parentBox.data_base64 =
              base64stringify(FlipBitOf(base64parse(@), 0))]} :
          tStash' = [tStash EXCEPT !.children[i] = damaged]
  /\ corrupted' = {i}
  /\ UNCHANGED << tpc, tio, tTree, approved, reply, keyLogin >>
  /\ UNCHANGED notTreeVars

\* keys the caller of loginWithKey may give: the loginKey of the account
\* and another one
KeyChoices == {"own", "other"}
GivenKey(c) ==
  IF c = "own" THEN tTree.loginKey
  ELSE [i \in 1..KeySize |-> (i * 29) % 256]

\* loginWithKey, the key already parsed: the stash is loaded and the login
\* tree is made from it
LoginWithKey(c) ==
  /\ tpc = "ready"
  /\ ~keyLogin.tried
  /\ keyLogin' = makeLoginTree(tStash, GivenKey(c), tStash.username,
                               GivenKey(c))
  /\ UNCHANGED << tpc, tio, tTree, tStash, approved, reply, corrupted >>
  /\ UNCHANGED notTreeVars

TreeNext ==
  \/ \E seed \in Seeds : TreeCreate(seed)
  \/ \E a \in RequestAppIds, n \in NestedAppIds : CreateChildLogin(a, n)
  \/ \E a \in RequestAppIds \cup NestedAppIds : ApproveLoginRequest(a)
  \/ \E i \in 1..(MaxApprovals + 1) : CorruptChild(i)
  \/ \E c \in KeyChoices : LoginWithKey(c)

\* ------------------------------------------------------------------------
\* Calibration
\* ------------------------------------------------------------------------
Salts == {[i \in 1..32 |-> 0], [i \in 1..32 |-> (i * 7) % 256]}
BenchValues == {0, 1, 2, 7, 8, 16, 31, 32, 33, 64, 500, 2000}
TargetValues == {0, 1, 100, 500, 2000, 2047, 2048, 4000}

NoSnrp == [salt_hex |-> << >>, n |-> 0, r |-> 0, p |-> 0]

CalInit ==
  /\ cpc = "idle"
  /\ calArgs = [salt |-> << >>, benchMs |-> 0, targetMs |-> 0]
  /\ snrp = NoSnrp

Calibrate(salt, benchMs, targetMs) ==
  /\ cpc = "idle"
  /\ calArgs' = [salt |-> salt, benchMs |-> benchMs, targetMs |-> targetMs]
  /\ snrp' = calcSnrpForTarget(salt, benchMs, targetMs)
  /\ cpc' = "done"
  /\ UNCHANGED notCalVars

CalNext ==
  \E salt \in Salts, b \in BenchValues, t \in TargetValues :
     Calibrate(salt, b, t)

\* ------------------------------------------------------------------------
\* requestPlusultraLogin (modules/context/context-api-pixie.js)
\* ------------------------------------------------------------------------
MaxDeliveries == 2

LoginErrors == {"LoginFailed", "NetworkError"}
AccountErrors == {"AccountFailed"}

\* onLogin(err) and onLogin(void 0, account): an argument that is not given
\* is the empty string
ErrorCall(e) == [err |-> e, account |-> ""]
AccountCall(account) == [err |-> "", account |-> account]

\* (variant: then(onFulfilled).catch(onRejected), where what onFulfilled
\* throws reaches onRejected)
AfterFulfilledThrowsCaught(calls, e) == Append(calls, ErrorCall(e))

\* then(onFulfilled, onRejected): what onFulfilled throws rejects the
\* promise then() returned and does not reach onRejected
AfterFulfilledThrows(calls, e) == calls

EdgeInit ==
  /\ epc = "idle"
  /\ onLoginThrows = FALSE
  /\ approvals = 0
  /\ deliveries = << >>

\* context.requestPlusultraLogin(opts)
RequestLogin(throws) ==
  /\ epc = "idle"
  /\ epc' = "pending"
  /\ onLoginThrows' = throws
  /\ UNCHANGED << approvals, deliveries >>
  /\ UNCHANGED notEdgeVars

\* a remote account approves the request
RemoteApprove ==
  /\ epc = "pending"
  /\ approvals < MaxDeliveries
  /\ approvals' = approvals + 1
  /\ UNCHANGED << epc, onLoginThrows, deliveries >>
  /\ UNCHANGED notEdgeVars

LoginsDelivered ==
  Cardinality({i \in 1..Len(deliveries) : deliveries[i].kind = "login"})

\* onLogin(err): the login failed; the error goes to the caller's onLogin
DeliverError(e) ==
  /\ epc = "pending"
  /\ Len(deliveries) < MaxDeliveries
  /\ deliveries' = Append(deliveries,
                          [kind |-> "error", err |-> e, made |-> "none",
                           calls |-> << ErrorCall(e) >>])
  /\ UNCHANGED << epc, onLoginThrows, approvals >>
  /\ UNCHANGED notEdgeVars

\* onLogin(void 0, loginTree): the reply of an approval arrived; makeAccount
\* is called and its promise is pending
DeliverLogin ==
  /\ epc = "pending"
  /\ Len(deliveries) < MaxDeliveries
  /\ LoginsDelivered < approvals
  /\ deliveries' = Append(deliveries,
                          [kind |-> "login", err |-> "", made |-> "pending",
                           calls |-> << >>])
  /\ UNCHANGED << epc, onLoginThrows, approvals >>
  /\ UNCHANGED notEdgeVars

\* makeAccount resolves: account => onLogin(void 0, account)
MakeAccountOk(i) ==
  /\ i \in 1..Len(deliveries)
  /\ deliveries[i].made = "pending"
  /\ deliveries' =
       [deliveries EXCEPT
          ![i].made = "ok",
          ![i].calls =
             IF onLoginThrows
               THEN AfterFulfilledThrows(Append(@, AccountCall("account")),
                                         "Thrown")
               ELSE Append(@, AccountCall("account"))]
  /\ UNCHANGED << epc, onLoginThrows, approvals >>
  /\ UNCHANGED notEdgeVars

\* makeAccount rejects: err => onLogin(err)
MakeAccountFail(i, e) ==
  /\ i \in 1..Len(deliveries)
  /\ deliveries[i].made = "pending"
  /\ deliveries' = [deliveries EXCEPT ![i].made = "failed",
                                      ![i].err = e,
                                      ![i].calls = Append(@, ErrorCall(e))]
  /\ UNCHANGED << epc, onLoginThrows, approvals >>
  /\ UNCHANGED notEdgeVars

EdgeNext ==
  \/ \E throws \in BOOLEAN : RequestLogin(throws)
  \/ RemoteApprove
  \/ \E e \in LoginErrors : DeliverError(e)
  \/ DeliverLogin
  \/ \E i \in 1..MaxDeliveries : MakeAccountOk(i)
  \/ \E i \in 1..MaxDeliveries, e \in AccountErrors : MakeAccountFail(i, e)

\* ------------------------------------------------------------------------
\* syncRequest (modules/storage/storage-servers.js)
\* ------------------------------------------------------------------------
syncServers == << "https://git2.airbitz.co", "https://git3.airbitz.co" >>

SyncMethods == {"GET", "POST"}
SyncPaths == {"/api/v2/store/a", "/api/v2/store/b"}
HttpStatuses == {200, 404, 500}
JsonReplies == {"{}", "{changes}"}

\* what a fetch can end with: a reply that parses as JSON, a reply that
\* does not, no reply
FetchOutcomes ==
  [kind : {"json"}, status : {200}, json : JsonReplies, error : {""}]
    \cup [kind : {"text"}, status : HttpStatuses, json : {""}, error : {""}]
    \cup [kind : {"unreachable"}, status : {0}, json : {""}, error : {""}]

\* the options of the fetch: a body for every method but GET
FetchOpts(method, body) ==
  [method |-> method, body |-> IF method # "GET" THEN body ELSE ""]

\* the error a failed fetch leaves the promise rejected with
FetchError(outcome, path) ==
  IF outcome.kind = "unreachable"
    THEN [name |-> "NetworkError", status |-> 0, path |-> ""]
    ELSE [name |-> "Error", status |-> outcome.status, path |-> path]

\* (variant: no other server is tried)
HasNextServerNever(index) == FALSE

\* serverIndex + 1 < syncServers.length, with the first server at 1
HasNextServer(index) == index + 1 <= Len(syncServers)

SyncInit ==
  /\ spc = "idle"
  /\ syncArgs = << >>
  /\ serverIndex = 0
  /\ fetches = << >>
  /\ syncResult = << >>

\* syncRequest(io, method, uri, body): the fetch to the first server
SyncRequest(method, path, body) ==
  /\ spc = "idle"
  /\ spc' = "fetching"
  /\ syncArgs' = [method |-> method, path |-> path, body |-> body]
  /\ serverIndex' = 1
  /\ UNCHANGED << fetches, syncResult >>
  /\ UNCHANGED notSyncVars

\* the fetch in flight ends: the promise resolves with the JSON, or the
\* next server is asked, or the promise rejects with this server's error
FetchEnds(outcome) ==
  /\ spc = "fetching"
  /\ fetches' = Append(fetches,
                       [uri |-> << syncServers[serverIndex], syncArgs.path >>,
                        opts |-> FetchOpts(syncArgs.method, syncArgs.body),
                        outcome |-> outcome])
  /\ IF outcome.kind = "json"
       THEN /\ spc' = "resolved"
            /\ syncResult' = [json |-> outcome.json]
            /\ UNCHANGED serverIndex
       ELSE IF HasNextServer(serverIndex)
         THEN /\ serverIndex' = serverIndex + 1
              /\ UNCHANGED << spc, syncResult >>
         ELSE /\ spc' = "rejected"
              /\ syncResult' = FetchError(outcome, syncArgs.path)
              /\ UNCHANGED serverIndex
  /\ UNCHANGED syncArgs
  /\ UNCHANGED notSyncVars

SyncNext ==
  \/ \E method \in SyncMethods, path \in SyncPaths : SyncRequest(method, path, "{}")
  \/ \E outcome \in FetchOutcomes : FetchEnds(outcome)

\* ------------------------------------------------------------------------
\* getMaxSpendable (modules/currency/wallet/currency-wallet-api.js)
\* ------------------------------------------------------------------------
MaxBalance == 12

Balances == 0..MaxBalance
\* -1: the engine accepts no amount at all
Thresholds == -1..(MaxBalance + 2)

\* (variant: the search starts with the balance as the excluded end)
InitialMaxBalance(b) == b

\* add(balance, '1')
InitialMax(b) == b + 1

\* add(min, div(diff, '2')) with diff = sub(max, min)
Mid(min, max) == min + ((max - min) \div 2)

\* engine.makeSpend resolves for the amounts the engine accepts
MakeSpendGood(amount) == amount <= threshold

NoRange == [min |-> 0, max |-> 0, mid |-> 0]

MaxSpendInit ==
  /\ mpc = "idle"
  /\ balance = 0
  /\ threshold = 0
  /\ range = NoRange
  /\ spends = << >>
  /\ maxSpendable = -1

\* getMaxSpendable(spendInfo): getMax('0', add(balance, '1'))
GetMaxSpendable(b, t) ==
  /\ mpc = "idle"
  /\ balance' = b
  /\ threshold' = t
  /\ range' = [min |-> 0, max |-> InitialMax(b), mid |-> 0]
  /\ mpc' = "search"
  /\ UNCHANGED << spends, maxSpendable >>
  /\ UNCHANGED notMaxSpendVars

\* getMax(min, max): resolve with min when at most one value is left,
\* otherwise try the average
GetMax ==
  /\ mpc = "search"
  /\ IF range.max - range.min <= 1
       THEN /\ mpc' = "done"
            /\ maxSpendable' = range.min
            /\ UNCHANGED << range, spends >>
       ELSE /\ mpc' = "spending"
            /\ range' = [range EXCEPT !.mid = Mid(range.min, range.max)]
            /\ spends' = Append(spends, Mid(range.min, range.max))
            /\ UNCHANGED maxSpendable
  /\ UNCHANGED << balance, threshold >>
  /\ UNCHANGED notMaxSpendVars

\* makeSpend settles: good => getMax(mid, max), bad => getMax(min, mid)
MakeSpendSettles ==
  /\ mpc = "spending"
  /\ range' = IF MakeSpendGood(range.mid)
                THEN [range EXCEPT !.min = range.mid]
                ELSE [range EXCEPT !.max = range.mid]
  /\ mpc' = "search"
  /\ UNCHANGED << balance, threshold, spends, maxSpendable >>
  /\ UNCHANGED notMaxSpendVars

MaxSpendNext ==
  \/ \E b \in Balances, t \in Thresholds : GetMaxSpendable(b, t)
  \/ GetMax
  \/ MakeSpendSettles

\* ------------------------------------------------------------------------
\* makeThrottledCallback, makeThrottledTxCallback
\* (modules/currency/wallet/currency-wallet-callbacks.js)
\* ------------------------------------------------------------------------
MaxCalls == 3

DefaultRateLimitMs == 5000
UnitTestRateLimitMs == 200
StartTime == 10000

UnitTestWalletId == "narfavJN4rp9ZzYigcRj1i0vrU2OAGGp4+KksAksj54="
Wallets == {UnitTestWalletId, "wallet"}
\* "value": made by makeThrottledCallback, "tx": by makeThrottledTxCallback
Kinds == {"value", "tx"}
Callbacks == Wallets \X Kinds

\* the time between one call and the next
Delays == {0, 201, 5001}

\* txids: one of a unit test, one of a real transaction
TxIds == {<<97>>, <<116, 120, 105, 100>>}

\* the n-th array passed in: one transaction of a unit test, or two real
\* ones; the transactions are numbered in arrival order
TxArray(txid, call) ==
  [i \in 1..(IF Len(txid) < 3 THEN 1 ELSE 2) |->
     [txid |-> txid, serial |-> (2 * call) + i]]

\* walletId === 'narfav...' (line 63), txArray[0].txid.length < 3 (line 108)
LowersRateLimit(c, txArray) ==
  IF c[2] = "value" THEN c[1] = UnitTestWalletId
  ELSE Len(txArray[1].txid) < 3

RateLimitAfter(limit, c, txArray) ==
  IF LowersRateLimit(c, txArray) THEN UnitTestRateLimitMs ELSE limit

\* (variant: a call never sees a delayed invocation pending)
DelayingNever(cb) == FALSE

\* if (delayCallback)
Delaying(cb) == cb.delayCallback

\* (variant: an earlier argument stays)
KeepFinalArgFirst(cb, arg) == IF cb.finalCallbackArg = 0 THEN arg ELSE cb.finalCallbackArg

\* finalCallbackArg = callbackArg
KeepFinalArg(cb, arg) == arg

\* (variant: the array of the call replaces the pending ones)
KeepPendingTxsLast(cb, txArray) == txArray

\* pendingTxs.push(...txArray)
KeepPendingTxs(cb, txArray) == cb.pendingTxs \o txArray

NewThrottled ==
  [delayCallback |-> FALSE, lastCallbackTime |-> 0,
   finalCallbackArg |-> 0, pendingTxs |-> << >>]

ThrottleInit ==
  /\ now = StartTime
  /\ throttleRateLimitMs = DefaultRateLimitMs
  /\ throttled = [c \in Callbacks |-> NewThrottled]
  /\ timers = {}
  /\ throttledCalls = << >>
  /\ invocations = [c \in Callbacks |-> << >>]

\* the function a throttled callback is, called at time t: c names the
\* callback, arg is the value (0 for transactions), txArray the transactions
ThrottledCall(c, arg, txArray, t) ==
  /\ now' = t
  /\ throttledCalls' =
       Append(throttledCalls,
              [callback |-> c, arg |-> arg, txs |-> txArray, time |-> t])
  /\ throttleRateLimitMs' = RateLimitAfter(throttleRateLimitMs, c, txArray)
  /\ IF Delaying(throttled[c])
       THEN /\ throttled' =
                 [throttled EXCEPT
                    ![c].finalCallbackArg =
                       IF c[2] = "value" THEN KeepFinalArg(throttled[c], arg)
                       ELSE @,
                    ![c].pendingTxs =
                       IF c[2] = "tx" THEN KeepPendingTxs(throttled[c], txArray)
                       ELSE @]
            /\ UNCHANGED << timers, invocations >>
       ELSE IF t - throttled[c].lastCallbackTime > throttleRateLimitMs'
         THEN /\ throttled' = [throttled EXCEPT ![c].lastCallbackTime = t]
              /\ invocations' =
                   [invocations EXCEPT
                      ![c] = Append(@, [time |-> t, arg |-> arg,
                                        txs |-> txArray, delayed |-> FALSE])]
              /\ UNCHANGED timers
         ELSE /\ throttled' =
                   [throttled EXCEPT ![c].delayCallback = TRUE,
                                     ![c].finalCallbackArg = arg,
                                     ![c].pendingTxs = txArray]
              /\ timers' = timers \cup
                   {[callback |-> c, set |-> Len(throttledCalls) + 1,
                     delay |-> throttleRateLimitMs',
                     due |-> t + throttleRateLimitMs']}
              /\ UNCHANGED invocations
  /\ UNCHANGED notThrottleVars

\* a callback made by makeThrottledCallback is called with the next value
CallThrottled(w, dt) ==
  /\ Len(throttledCalls) < MaxCalls
  /\ ThrottledCall(<< w, "value" >>, Len(throttledCalls) + 1, << >>, now + dt)

\* a callback made by makeThrottledTxCallback is called with an array
CallThrottledTx(w, txid, dt) ==
  /\ Len(throttledCalls) < MaxCalls
  /\ ThrottledCall(<< w, "tx" >>, 0,
                   TxArray(txid, Len(throttledCalls) + 1), now + dt)

\* the function given to setTimeout runs, no earlier than it is due and
\* after the timers due before it
TimerFires(c, set) ==
  /\ \E timer \in timers :
       /\ timer.callback = c
       /\ timer.set = set
       /\ \A other \in timers : timer.due <= other.due
       /\ now' = IF now > timer.due THEN now ELSE timer.due
       /\ timers' = timers \ {timer}
  /\ invocations' =
       [invocations EXCEPT
          ![c] = Append(@, [time |-> now',
                            arg |-> throttled[c].finalCallbackArg,
                            txs |-> throttled[c].pendingTxs,
                            delayed |-> TRUE])]
  /\ throttled' =
       [throttled EXCEPT ![c].lastCallbackTime = now',
                         ![c].delayCallback = FALSE,
                         ![c].pendingTxs = << >>]
  /\ UNCHANGED << throttleRateLimitMs, throttledCalls >>
  /\ UNCHANGED notThrottleVars

AnyTimerFires == \E c \in Callbacks, set \in 1..(MaxCalls + 1) : TimerFires(c, set)

ThrottleNext ==
  \/ \E w \in Wallets, dt \in Delays : CallThrottled(w, dt)
  \/ \E w \in Wallets, txid \in TxIds, dt \in Delays :
       CallThrottledTx(w, txid, dt)
  \/ AnyTimerFires

\* ------------------------------------------------------------------------
\* onTransactionsChanged (modules/currency/wallet/currency-wallet-callbacks.js)
\* ------------------------------------------------------------------------
\* the fields the sanity check looks at, with the typeof it asks for
TxFieldTypes ==
  [txid |-> "string", date |-> "number", networkFee |-> "string",
   blockHeight |-> "number", nativeAmount |-> "string",
   ourReceiveAddresses |-> "object"]

\* the typeof of the fields of what a plugin sends: as asked for, or with
\* one field of another type
TxShapes ==
  {TxFieldTypes}
    \cup {[TxFieldTypes EXCEPT ![f] = "undefined"] : f \in DOMAIN TxFieldTypes}
    \cup {[TxFieldTypes EXCEPT !.nativeAmount = "number"]}

\* selfState: the transactions that have a file, and those whose file is
\* loaded
TxIdsSeen == {"a", "b", "c"}
fileNames == {"a", "b"}
files == {"a"}

\* a transaction: its txid, the typeof of its fields, and whether it
\* compares equal to the one the wallet has; isNull: the array holds null
TxsSent ==
  [txid : TxIdsSeen, types : {TxFieldTypes}, same : BOOLEAN, isNull : {FALSE}]
    \cup [txid : {"c"}, types : TxShapes, same : {FALSE}, isNull : {FALSE}]
    \cup [txid : {"a"}, types : {TxFieldTypes}, same : {FALSE}, isNull : {TRUE}]

TxBatches == {<< >>} \cup {<< tx >> : tx \in TxsSent}
               \cup {<< tx1, tx2 >> : tx1 \in TxsSent, tx2 \in TxsSent}

\* the test of lines 210-217
Bogus(tx) == \E f \in DOMAIN TxFieldTypes : tx.types[f] # TxFieldTypes[f]

\* the first transaction the loop of lines 209-223 stops at: a bogus one, or
\* a null, whose txid cannot be read; 0 when there is none
FirstStop(txs) ==
  IF \E i \in 1..Len(txs) : txs[i].isNull \/ Bogus(txs[i])
    THEN CHOOSE i \in 1..Len(txs) :
           /\ txs[i].isNull \/ Bogus(txs[i])
           /\ \A j \in 1..(i - 1) : ~(txs[j].isNull \/ Bogus(txs[j]))
    ELSE 0

\* (variant: the transactions before the first bogus one are handled)
HandledBeforeStop(txs) ==
  IF FirstStop(txs) = 0 THEN txs ELSE SubSeq(txs, 1, FirstStop(txs) - 1)

\* the transactions the loop of lines 232-254 gets: the whole batch, after
\* the loop of lines 209-223 went through all of it
Handled(txs) == IF FirstStop(txs) = 0 THEN txs ELSE << >>

\* lines 236-252: the transactions that changed, the new ones with a file
\* to set up and the ones whose loaded file goes to onTransactionsChanged
Differing(txs) == SelectSeq(txs, LAMBDA tx : ~tx.same)
Created(txs) == SelectSeq(Differing(txs), LAMBDA tx : tx.txid \notin fileNames)
Changed(txs) ==
  SelectSeq(Differing(txs),
            LAMBDA tx : tx.txid \in fileNames /\ tx.txid \in files)

TxInit ==
  /\ batches = "none"
  /\ lastTxs = << >>
  /\ txErrors = << >>
  /\ txThrown = FALSE
  /\ txDispatched = << >>
  /\ txSetups = << >>
  /\ txListenerCalls = << >>

\* onTransactionsChanged(txs) with no array: if (!txs) return
OnNoTransactions ==
  /\ batches' = "absent"
  /\ lastTxs' = << >>
  /\ txErrors' = << >>
  /\ txThrown' = FALSE
  /\ txDispatched' = << >>
  /\ txSetups' = << >>
  /\ txListenerCalls' = << >>
  /\ UNCHANGED notTxVars

\* onTransactionsChanged(txs) with an array
OnTransactionsChanged(txs) ==
  /\ batches' = "array"
  /\ lastTxs' = txs
  /\ txThrown' = (FirstStop(txs) # 0 /\ txs[FirstStop(txs)].isNull)
  /\ txErrors' =
       IF FirstStop(txs) # 0 /\ ~txs[FirstStop(txs)].isNull
         THEN << [message |-> "Plugin sent bogus tx", tx |-> FirstStop(txs)] >>
         ELSE << >>
  /\ txSetups' = Created(Handled(txs))
  /\ txDispatched' =
       IF FirstStop(txs) = 0
         THEN << [type |-> "CURRENCY_ENGINE_CHANGED_TXS", txs |-> txs] >>
         ELSE << >>
  /\ txListenerCalls' =
       (IF Changed(Handled(txs)) # << >>
          THEN << [callback |-> "onTransactionsChanged",
                   txs |-> Changed(Handled(txs))] >>
          ELSE << >>)
       \o (IF Created(Handled(txs)) # << >>
             THEN << [callback |-> "onNewTransactions",
                      txs |-> Created(Handled(txs))] >>
             ELSE << >>)
  /\ UNCHANGED notTxVars

TxNext ==
  \/ OnNoTransactions
  \/ \E txs \in TxBatches : OnTransactionsChanged(txs)

\* ------------------------------------------------------------------------
\* approveLoginRequest: the order of its steps (modules/login/lobbyApi.js)
\* ------------------------------------------------------------------------
LobbyIds == {"lobby1", "lobby2", "lobby3"}
StepErrors == {"NetworkError", "ServerError"}
StepOutcomes == {"ok"} \cup StepErrors

FirstSyncDelayMs == 10000
SecondSyncDelayMs == 20000

\* (variant: the second follow-up sync is scheduled whatever the first did)
SecondSyncScheduledAlways(outcome) == TRUE

\* the then of lines 306-311 runs when the first follow-up sync resolved
SecondSyncScheduled(outcome) == outcome = "ok"

ApproveInit ==
  /\ apc = "idle"
  /\ approveArgs = << >>
  /\ approveLog = << >>
  /\ approveResult = "pending"
  /\ approveErrors = << >>
  /\ approveTimers = << >>

\* approveLoginRequest(ai, appId, lobbyId, lobbyJson, accountState):
\* await accountState.syncLogin()
Approve(appId, lobbyId) ==
  /\ apc = "idle"
  /\ approveArgs' = [appId |-> appId, lobbyId |-> lobbyId]
  /\ approveLog' = << "syncLogin" >>
  /\ apc' = "syncing"
  /\ UNCHANGED << approveResult, approveErrors, approveTimers >>
  /\ UNCHANGED notApproveVars

\* syncLogin settles; then await ensureAccountExists
SyncLoginSettles(outcome) ==
  /\ apc = "syncing"
  /\ IF outcome = "ok"
       THEN /\ approveLog' = Append(approveLog, "ensureAccountExists")
            /\ apc' = "ensuring"
            /\ UNCHANGED approveResult
       ELSE /\ approveResult' = outcome
            /\ apc' = "end"
            /\ UNCHANGED approveLog
  /\ UNCHANGED << approveArgs, approveErrors, approveTimers >>
  /\ UNCHANGED notApproveVars

\* ensureAccountExists settles; findAppLogin; the error when there is no
\* login; then await loginStore.load
EnsureSettles(outcome, found) ==
  /\ apc = "ensuring"
  /\ IF outcome # "ok"
       THEN /\ approveResult' = outcome
            /\ apc' = "end"
            /\ UNCHANGED approveLog
       ELSE IF ~found
         THEN /\ approveResult' = "Failed to create the requested login object"
              /\ approveLog' = Append(approveLog, "findAppLogin")
              /\ apc' = "end"
         ELSE /\ approveLog' = approveLog \o << "findAppLogin", "loginStore.load" >>
              /\ apc' = "loading"
              /\ UNCHANGED approveResult
  /\ UNCHANGED << approveArgs, approveErrors, approveTimers >>
  /\ UNCHANGED notApproveVars

\* loginStore.load settles; sanitizeLoginStash; sendLobbyReply
LoadSettles(outcome) ==
  /\ apc = "loading"
  /\ IF outcome = "ok"
       THEN /\ approveLog' = approveLog \o << "sanitizeLoginStash", "sendLobbyReply" >>
            /\ apc' = "sending"
            /\ UNCHANGED approveResult
       ELSE /\ approveResult' = outcome
            /\ apc' = "end"
            /\ UNCHANGED approveLog
  /\ UNCHANGED << approveArgs, approveErrors, approveTimers >>
  /\ UNCHANGED notApproveVars

\* sendLobbyReply settles; its then sets the first timer and resolves
SendSettles(outcome) ==
  /\ apc = "sending"
  /\ IF outcome = "ok"
       THEN /\ approveLog' = Append(approveLog, "replySent")
            /\ approveTimers' = << FirstSyncDelayMs >>
            /\ approveResult' = "resolved"
            /\ apc' = "replied"
       ELSE /\ approveResult' = outcome
            /\ apc' = "end"
            /\ UNCHANGED << approveLog, approveTimers >>
  /\ UNCHANGED << approveArgs, approveErrors >>
  /\ UNCHANGED notApproveVars

\* a timer fires: accountState.syncLogin()
FollowUpTimerFires ==
  /\ apc \in {"replied", "waiting"}
  /\ approveTimers # << >>
  /\ approveTimers' = Tail(approveTimers)
  /\ approveLog' = Append(approveLog, "syncLogin")
  /\ apc' = IF apc = "replied" THEN "firstSync" ELSE "secondSync"
  /\ UNCHANGED << approveArgs, approveResult, approveErrors >>
  /\ UNCHANGED notApproveVars

\* the first follow-up sync settles: the second timer, or onError
FirstSyncSettles(outcome) ==
  /\ apc = "firstSync"
  /\ approveTimers' =
       IF SecondSyncScheduled(outcome) THEN << SecondSyncDelayMs >> ELSE << >>
  /\ approveErrors' =
       IF outcome = "ok" THEN approveErrors
       ELSE Append(approveErrors, [sync |-> 1, error |-> outcome])
  /\ apc' = IF SecondSyncScheduled(outcome) THEN "waiting" ELSE "end"
  /\ UNCHANGED << approveArgs, approveLog, approveResult >>
  /\ UNCHANGED notApproveVars

\* the second follow-up sync settles: onError when it failed
SecondSyncSettles(outcome) ==
  /\ apc = "secondSync"
  /\ approveErrors' =
       IF outcome = "ok" THEN approveErrors
       ELSE Append(approveErrors, [sync |-> 2, error |-> outcome])
  /\ apc' = "end"
  /\ UNCHANGED << approveArgs, approveLog, approveResult, approveTimers >>
  /\ UNCHANGED notApproveVars

ApproveNext ==
  \/ \E appId \in RequestAppIds, lobbyId \in LobbyIds : Approve(appId, lobbyId)
  \/ \E outcome \in StepOutcomes : SyncLoginSettles(outcome)
  \/ \E outcome \in StepOutcomes, found \in BOOLEAN : EnsureSettles(outcome, found)
  \/ \E outcome \in StepOutcomes : LoadSettles(outcome)
  \/ \E outcome \in StepOutcomes : SendSettles(outcome)
  \/ FollowUpTimerFires
  \/ \E outcome \in StepOutcomes : FirstSyncSettles(outcome)
  \/ \E outcome \in StepOutcomes : SecondSyncSettles(outcome)

\* ------------------------------------------------------------------------
\* getExchangeRate (modules/exchange/exchange-selectors.js)
\* ------------------------------------------------------------------------
Infinity == 1000000

\* what getPairCost gives for each source; an inverse pair costs one more
SourceCost == [good |-> 1, stale |-> 3, free |-> 0]
getPairCost(source, age, inverse) ==
  SourceCost[source] + (IF inverse THEN 1 ELSE 0)

\* the pairs the exchange plugins may have put into the cache
PairsFetched ==
  << [fromCurrency |-> "BTC", toCurrency |-> "USD", rate |-> 2, source |-> "good"],
     [fromCurrency |-> "USD", toCurrency |-> "EUR", rate |-> 3, source |-> "good"],
     [fromCurrency |-> "BTC", toCurrency |-> "EUR", rate |-> 5, source |-> "stale"],
     [fromCurrency |-> "EUR", toCurrency |-> "BTC", rate |-> 7, source |-> "free"],
     [fromCurrency |-> "USD", toCurrency |-> "JPY", rate |-> 11, source |-> "good"],
     [fromCurrency |-> "JPY", toCurrency |-> "BTC", rate |-> 13, source |-> "good"] >>

\* the currencies asked for; no pair has XYZ
Currencies == {"BTC", "USD", "EUR", "JPY", "XYZ"}

\* rates are fractions: num / den
Rate(num, den) == [num |-> num, den |-> den]
NoRate == [rate |-> Rate(0, 1), cost |-> Infinity]

Touches(pair, currency) ==
  pair.fromCurrency = currency \/ pair.toCurrency = currency
OtherEnd(pair, currency) ==
  IF pair.fromCurrency = currency THEN pair.toCurrency ELSE pair.fromCurrency

\* routes[fromCurrency][currency]: the indices of the pairs between the two
RouteIndices(pairs, fromCurrency, currency) ==
  SelectSeq([i \in 1..Len(pairs) |-> i],
            LAMBDA i : Touches(pairs[i], fromCurrency)
                         /\ OtherEnd(pairs[i], fromCurrency) = currency)

\* Object.keys(routes[fromCurrency]): the currencies a pair leads to, in
\* the order of the pairs
RECURSIVE RouteKeysFrom(_, _, _)
RouteKeysFrom(pairs, fromCurrency, i) ==
  IF i = 0 THEN << >>
  ELSE IF Touches(pairs[i], fromCurrency)
            /\ \A j \in 1..(i - 1) :
                  ~(Touches(pairs[j], fromCurrency)
                      /\ OtherEnd(pairs[j], fromCurrency)
                           = OtherEnd(pairs[i], fromCurrency))
    THEN Append(RouteKeysFrom(pairs, fromCurrency, i - 1),
                OtherEnd(pairs[i], fromCurrency))
    ELSE RouteKeysFrom(pairs, fromCurrency, i - 1)

RouteKeys(pairs, fromCurrency) == RouteKeysFrom(pairs, fromCurrency, Len(pairs))

\* search.routes[currency] is there
HasRoutes(pairs, currency) == \E i \in 1..Len(pairs) : Touches(pairs[i], currency)

\* parentRate.rate / pair.rate or parentRate.rate * pair.rate
ThroughPair(rate, pair, inverse) ==
  IF inverse THEN Rate(rate.num, rate.den * pair.rate)
  ELSE Rate(rate.num * pair.rate, rate.den)

\* lines 30-46: of the pairs that lead to the currency, the first of the
\* least cost
RECURSIVE BestPair(_, _, _, _, _)
BestPair(pairs, fromCurrency, parentRate, indices, ourRate) ==
  IF indices = << >> THEN ourRate
  ELSE Only({ BestPair(pairs, fromCurrency, parentRate, Tail(indices),
                       IF cost < ourRate.cost
                         THEN [rate |-> ThroughPair(parentRate.rate,
                                          pairs[Head(indices)],
                                          pairs[Head(indices)].fromCurrency
                                             # fromCurrency),
                               cost |-> cost]
                         ELSE ourRate) :
              cost \in {parentRate.cost
                          + getPairCost(pairs[Head(indices)].source, 0,
                                        pairs[Head(indices)].fromCurrency
                                           # fromCurrency)} })

\* (variant: a currency is gone to whatever the best rate so far)
WorthSearchingAlways(ourRate, bestRate) == ourRate.cost < Infinity

\* line 49: only recurse if we have a better score
WorthSearching(ourRate, bestRate) == ourRate.cost < bestRate.cost

\* searchRoutes, with search.bestRate handed on from call to call
RECURSIVE searchRoutes(_, _, _, _, _), SearchKeys(_, _, _, _, _, _)
searchRoutes(search, fromCurrency, parentRate, blacklist, bestRate) ==
  SearchKeys(search, fromCurrency, RouteKeys(search.pairs, fromCurrency),
             parentRate, blacklist \cup {fromCurrency},
             IF fromCurrency = search.toCurrency THEN parentRate ELSE bestRate)

SearchKeys(search, fromCurrency, keys, parentRate, blacklist, bestRate) ==
  IF keys = << >> THEN bestRate
  ELSE Only({ SearchKeys(search, fromCurrency, Tail(keys), parentRate,
                         blacklist, best) :
              best \in
                { IF Head(keys) \in blacklist THEN bestRate
                  ELSE Only({ IF WorthSearching(ourRate, bestRate)
                                THEN searchRoutes(search, Head(keys), ourRate,
                                                  blacklist, bestRate)
                                ELSE bestRate :
                              ourRate \in
                                { BestPair(search.pairs, fromCurrency,
                                           parentRate,
                                           RouteIndices(search.pairs,
                                                        fromCurrency,
                                                        Head(keys)),
                                           NoRate) } }) } })

\* (variant: the search runs whether or not the endpoints have routes)
EndpointsExistAlways(pairs, fromCurrency, toCurrency) == TRUE

\* line 75: only search if the endpoints exist
EndpointsExist(pairs, fromCurrency, toCurrency) ==
  HasRoutes(pairs, fromCurrency) /\ HasRoutes(pairs, toCurrency)

startRouteSearch(pairs, fromCurrency, toCurrency) ==
  IF EndpointsExist(pairs, fromCurrency, toCurrency)
    THEN searchRoutes([pairs |-> pairs, toCurrency |-> toCurrency],
                      fromCurrency, [rate |-> Rate(1, 1), cost |-> 0], {},
                      NoRate).rate
    ELSE NoRate.rate

ExchangeInit ==
  /\ exchangePairs = << >>
  /\ exchangeQuery = << >>
  /\ exchangeRate = Rate(0, 1)

\* the cache gets one more pair; the rate returned before was of the cache
\* before
PairFetched(i) ==
  /\ \A j \in 1..Len(exchangePairs) :
        \E k \in 1..(i - 1) : exchangePairs[j] = PairsFetched[k]
  /\ exchangePairs' = Append(exchangePairs, PairsFetched[i])
  /\ exchangeQuery' = << >>
  /\ exchangeRate' = Rate(0, 1)
  /\ UNCHANGED notExchangeVars

\* getExchangeRate(state, fromCurrency, toCurrency, getPairCost)
GetExchangeRate(fromCurrency, toCurrency) ==
  /\ exchangeQuery' = << fromCurrency, toCurrency >>
  /\ exchangeRate' = startRouteSearch(exchangePairs, fromCurrency, toCurrency)
  /\ UNCHANGED exchangePairs
  /\ UNCHANGED notExchangeVars

ExchangeNext ==
  \/ \E i \in 1..Len(PairsFetched) : PairFetched(i)
  \/ \E fromCurrency \in Currencies, toCurrency \in Currencies :
       GetExchangeRate(fromCurrency, toCurrency)

\* ------------------------------------------------------------------------
\* customTokens (modules/currency/currency-reducer.js)
\* ------------------------------------------------------------------------
CurrencyCodes == {"TKA", "TKB", "TKC"}
TokenInfos ==
  [currencyCode : CurrencyCodes, multiplier : {"1", "100", "1000000"}]

\* the actions the store may get
RootActions ==
  [type : {"ADDED_CUSTOM_TOKEN"}, payload : TokenInfos]
    \cup [type : {"CURRENCY_PLUGINS_LOADED", "LOGOUT"},
          payload : {[currencyCode |-> "TKA", multiplier |-> "1"]}]

NoAction == [type |-> "", payload |-> [currencyCode |-> "", multiplier |-> ""]]

\* (variant: the entries of the same currencyCode stay)
WithoutCodeNone(state, currencyCode) == state

\* state.filter(info => info.currencyCode !== currencyCode)
WithoutCode(state, currencyCode) ==
  SelectSeq(state, LAMBDA info : info.currencyCode # currencyCode)

\* the reducer
customTokensReducer(state, action) ==
  IF action.type = "ADDED_CUSTOM_TOKEN"
    THEN Append(WithoutCode(state, action.payload.currencyCode),
                action.payload)
    ELSE state

TokensInit ==
  /\ customTokens = << >>
  /\ lastAction = NoAction

\* the store runs the reducer on an action
Dispatch(action) ==
  /\ customTokens' = customTokensReducer(customTokens, action)
  /\ lastAction' = action
  /\ UNCHANGED notTokensVars

TokensNext == \E action \in RootActions : Dispatch(action)

Init ==
  /\ BoxInit
  /\ LoginInit
  /\ TreeInit
  /\ CalInit
  /\ AccountInit
  /\ EdgeInit
  /\ SyncInit
  /\ MaxSpendInit
  /\ ThrottleInit
  /\ TxInit
  /\ ApproveInit
  /\ ExchangeInit
  /\ TokensInit

Next == BoxNext

Spec == Init /\ [][Next]_vars

LoginSpec == Init /\ [][LoginNext]_vars

TreeSpec == Init /\ [][TreeNext]_vars

CalSpec == Init /\ [][CalNext]_vars

EdgeSpec == Init /\ [][EdgeNext]_vars

SyncSpec == Init /\ [][SyncNext]_vars

MaxSpendSpec == Init /\ [][MaxSpendNext]_vars

ThrottleSpec == Init /\ [][ThrottleNext]_vars

TxSpec == Init /\ [][TxNext]_vars

ApproveSpec == Init /\ [][ApproveNext]_vars

ExchangeSpec == Init /\ [][ExchangeNext]_vars

TokensSpec == Init /\ [][TokensNext]_vars

\* a timer that was set fires
ThrottleFairSpec == ThrottleSpec /\ WF_vars(AnyTimerFires)

\* ------------------------------------------------------------------------
\* Properties of the SecretBox
\* ------------------------------------------------------------------------
Intact == mods = {}

\* C1: round trip.  Whatever the payload, the key and the bytes the random
\* source returned, decrypt of the box encrypt returned, with the same key,
\* returns exactly the payload.
C1_RoundTrip ==
  (pc = "done" /\ Intact /\ dkey = key) =>
     (result.ok /\ result.payload = data)

C1_Witness ==
  /\ pc = "done" /\ Intact /\ dkey = key
  /\ Len(data) > 0
  /\ raw[1] > 0
  /\ result.ok /\ result.payload = data

\* C2: tamper detection.  After one bit of the ciphertext was flipped,
\* decrypt with the same key throws the checksum or the padding error and
\* returns no payload.
IntegrityFailure(r) == ~r.ok /\ r.check \in {"checksum", "padding"}

C2_TamperDetected ==
  (pc = "done" /\ mods = {"flip"} /\ dkey = key) =>
     (IntegrityFailure(result) /\ result.payload = << >>)

C2_Witness ==
  /\ pc = "done" /\ mods = {"flip"} /\ dkey = key
  /\ box # sent
  /\ Len(data) > 0
  /\ IntegrityFailure(result)

\* C5: a padding mismatch fails with the same error as a checksum mismatch,
\* so that the failure does not tell which of the two checks rejected the box.
ChecksumError == Thrown("checksum", "Invalid checksum")

C5_SameError ==
  (pc = "done" /\ IntegrityFailure(result)) =>
     (result.name = ChecksumError.name
        /\ result.message = ChecksumError.message)

\* C6: a box whose encryptionType is not 0 fails with the unknown-type error
\* whatever the key, the iv and the ciphertext are (also when they could not
\* be decrypted at all), and that error is not an integrity failure.
C6_UnknownType ==
  (pc = "done" /\ box.encryptionType # 0) =>
     (/\ ~result.ok
      /\ result.check = "type"
      /\ result.message = "Unknown encryption type"
      /\ ~IntegrityFailure(result)
      /\ result.message # ChecksumError.message
      /\ result.payload = << >>)

C6_Witness ==
  /\ pc = "done" /\ box.encryptionType # 0
  /\ "iv" \in mods
  /\ dkey # key
  /\ result.check = "type"

\* C7: the buffer encrypt builds is, in order, headerLen, headerLen random
\* bytes, the payload length in 4 bytes big-endian, the payload, footerLen,
\* footerLen random bytes, the 32-byte SHA-256 of everything before it and
\* N bytes of value N, 1 <= N <= 16, up to a multiple of 16; headerLen and
\* footerLen are in 0..31.
BigEndian4(n) ==
  << (n \div 16777216) % 256, (n \div 65536) % 256, (n \div 256) % 256,
     n % 256 >>

Layout(h, f, n) ==
  LET prefix == << h >> \o random(Advance(io, 2), h)
                  \o BigEndian4(Len(data)) \o data
                  \o << f >> \o random(Advance(io, 2 + h), f)
  IN prefix \o sha256(prefix) \o [i \in 1..n |-> n]

C7_Layout ==
  (pc = "boxed" /\ Intact) =>
     LET h == raw[1]
         f == raw[h + 6 + Len(data)]
         n == raw[Len(raw)]
     IN /\ (Len(raw) % BlockSize) = 0
        /\ h \in 0..31
        /\ f \in 0..31
        /\ n \in 1..BlockSize
        /\ raw = Layout(h, f, n)

C7_Witness ==
  /\ pc = "boxed" /\ Intact
  /\ raw[1] = 31
  /\ Len(data) > 0
  /\ raw[Len(raw)] = BlockSize
  /\ raw = Layout(31, 10, BlockSize)

\* ------------------------------------------------------------------------
\* Properties of createLogin and of the kits
\* ------------------------------------------------------------------------
ServerAccepted == DOMAIN serverDb # {}
StashWritten == DOMAIN stashFile # {}
TreeReturned == DOMAIN loginTree # {}
Ended == lpc \in {"resolved", "rejected"}

\* C3: all or nothing.  Once createLogin has ended, resolved or rejected,
\* the server holds the login, the stash is on disk and the login tree was
\* returned, or none of the three happened.
C3_AllOrNothing ==
  Ended =>
     \/ ServerAccepted /\ StashWritten /\ TreeReturned
     \/ ~ServerAccepted /\ ~StashWritten /\ ~TreeReturned

\* C4: when the create request is rejected by the auth server or fails,
\* createLogin rejects with that error, the stash is not saved, no login
\* tree is returned and the request was sent once only.
C4_RejectionStopsCommit ==
  settled.how = "rejected" =>
     /\ lpc = "rejected"
     /\ failure = settled.error
     /\ ~StashWritten
     /\ ~TreeReturned
     /\ Len(requests) = 1

C4_Witness ==
  /\ settled = Rejected("ServerError")
  /\ lpc = "rejected"
  /\ failure = "ServerError"
  /\ Has(args.opts, "password")
  /\ ~ServerAccepted /\ ~StashWritten /\ ~TreeReturned
  /\ Len(requests) = 1

BothFactors ==
  lpc = "resolved" /\ Has(args.opts, "password") /\ Has(args.opts, "pin")
RightPassword ==
  Has(args.opts, "password") /\ pwLogin.tried
    /\ pwLogin.secret = args.opts.password
RightPin ==
  Has(args.opts, "pin") /\ pinLogin.tried /\ pinLogin.secret = args.opts.pin

\* C8: factor independence.  For a login created with a password and a PIN,
\* the password alone recovers the loginKey from the password box, the PIN
\* alone recovers the same loginKey from the PIN box, and the two boxes are
\* different boxes made with different keys derived with different salts,
\* also when password and PIN are the same text.
C8_FactorIndependence ==
  BothFactors =>
     /\ RightPassword =>
          (pwLogin.ok /\ pwLogin.loginKey = kit.login.loginKey)
     /\ RightPin =>
          (pinLogin.ok /\ pinLogin.loginKey = kit.login.loginKey)
     /\ (pwLogin.ok /\ pinLogin.ok) => pwLogin.loginKey = pinLogin.loginKey
     /\ stashFile.passwordKeySnrp.salt_hex # stashFile.pin2KeySnrp.salt_hex
     /\ scrypt(stashFile.username \o args.opts.password,
               stashFile.passwordKeySnrp)
          # scrypt(stashFile.username \o args.opts.pin,
                   stashFile.pin2KeySnrp)
     /\ stashFile.passwordBox # stashFile.pin2Box

C8_Witness ==
  /\ BothFactors
  /\ args.opts.password # args.opts.pin
  /\ RightPassword /\ RightPin
  /\ pwLogin.ok /\ pinLogin.ok
  /\ pwLogin.loginKey = kit.login.loginKey
  /\ pinLogin.loginKey = kit.login.loginKey

\* C9: end to end.  After createLogin with a password has committed its kit,
\* the login rebuilt from the stash on disk with nothing but the user name
\* and that password has the key infos of the login createLogin built.
C9_EndToEnd ==
  (lpc = "resolved" /\ RightPassword) =>
     (pwLogin.ok /\ pwLogin.keyInfos = kit.login.keyInfos)

C9_Witness ==
  /\ lpc = "resolved" /\ RightPassword
  /\ ServerAccepted /\ StashWritten
  /\ pwLogin.username # args.username
  /\ pwLogin.ok
  /\ Len(pwLogin.keyInfos) = 1
  /\ pwLogin.keyInfos[1] = args.opts.keyInfo

StashFields ==
  {"appId", "loginId", "username", "loginAuthBox", "parentBox",
   "passwordBox", "passwordKeySnrp", "pin2Box", "pin2KeySnrp", "keyBoxes"}
ServerFields ==
  {"appId", "loginAuth", "loginAuthBox", "loginId", "parentBox",
   "passwordAuth", "passwordBox", "passwordKeySnrp", "pin2Id", "pin2Auth",
   "pin2Box", "pin2KeySnrp", "keyBoxes"}
BoxFields == {"loginAuthBox", "parentBox", "passwordBox", "pin2Box"}
SnrpFields == {"passwordKeySnrp", "pin2KeySnrp"}
Base64Fields == {"loginAuth", "loginId", "passwordAuth", "pin2Id", "pin2Auth"}

IsBox(b) == DOMAIN b = {"encryptionType", "iv_hex", "data_base64"}

\* a box, a salt or a base64 text that is the secret itself
Carries(obj, secret) ==
  \/ \E f \in (DOMAIN obj) \cap BoxFields :
        \/ base64parse(obj[f].data_base64) = secret
        \/ base16parse(obj[f].iv_hex) = secret
  \/ \E f \in (DOMAIN obj) \cap SnrpFields :
        base16parse(obj[f].salt_hex) = secret
  \/ \E f \in (DOMAIN obj) \cap Base64Fields :
        obj[f] = base64stringify(secret)
  \/ Has(obj, "username") /\ obj.username = secret

SecretsBoxed(k) ==
  /\ DOMAIN k.stash \subseteq StashFields
  /\ ~Has(k.stash, "loginKey")
  /\ ~Has(k.stash, "loginAuth")
  /\ \A f \in (DOMAIN k.stash) \cap BoxFields : IsBox(k.stash[f])
  /\ Has(k.stash, "keyBoxes") =>
        \A i \in 1..Len(k.stash.keyBoxes) : IsBox(k.stash.keyBoxes[i])
  /\ ~Carries(k.stash, k.login.loginKey)
  /\ ~Carries(k.stash, k.login.loginAuth)
  /\ decrypt(k.stash.loginAuthBox, k.login.loginKey)
       = Returned(k.login.loginAuth)
  /\ DOMAIN k.server \subseteq ServerFields
  /\ ~Has(k.server, "loginKey")
  /\ ~Carries(k.server, k.login.loginKey)

\* C10: in every kit makeCreateKit builds, the stash has the secrets as
\* boxes only (it has neither the loginKey nor the loginAuth, in no field
\* and in no encoding, and its loginAuthBox is the loginAuth boxed under the
\* loginKey), and the server fragment does not have the loginKey.
C10_SecretsBoxed ==
  /\ DOMAIN kit # {} => SecretsBoxed(kit)
  /\ DOMAIN childKit # {} =>
       /\ SecretsBoxed(childKit)
       /\ decrypt(childKit.stash.parentBox, loginTree.loginKey)
            = Returned(childKit.login.loginKey)

C10_Witness ==
  /\ DOMAIN kit # {}
  /\ DOMAIN kit.stash = StashFields \ {"parentBox"}
  /\ DOMAIN childKit # {}
  /\ Has(childKit.stash, "parentBox")
  /\ Has(childKit.stash, "keyBoxes")
  /\ SecretsBoxed(kit) /\ SecretsBoxed(childKit)

\* C11: a kit built with a parent login has a parentBox that decrypts, under
\* the parent's loginKey, to the loginKey of the new login, and the server
\* fragment and the stash fragment have the same parentBox; a kit built
\* without a parent has no parentBox in either.
C11_ParentBox ==
  /\ DOMAIN childKit # {} =>
       /\ Has(childKit.stash, "parentBox")
       /\ Has(childKit.server, "parentBox")
       /\ childKit.server.parentBox = childKit.stash.parentBox
       /\ decrypt(childKit.stash.parentBox, loginTree.loginKey)
            = Returned(childKit.login.loginKey)
  /\ DOMAIN kit # {} =>
       /\ ~Has(kit.stash, "parentBox")
       /\ ~Has(kit.server, "parentBox")

C11_Witness ==
  /\ DOMAIN kit # {}
  /\ ~Has(kit.stash, "parentBox")
  /\ DOMAIN childKit # {}
  /\ childKit.login.loginKey # loginTree.loginKey
  /\ childKit.login.appId = "app"
  /\ decrypt(childKit.server.parentBox, loginTree.loginKey).payload
       = childKit.login.loginKey

KitFields == {"loginId", "serverPath", "server", "stash", "login"}

C13_Idempotent ==
  \A i \in 1..Len(approved) :
     /\ Len(AppLogins(tTree, approved[i].appId)) = 1
     /\ Len(AppLogins(tStash, approved[i].appId)) = 1
     /\ findAppLogin(tTree, approved[i].appId).loginId = approved[i].loginId
     /\ findAppLogin(tTree, approved[i].appId).loginKey
          = approved[i].loginKey
     /\ \A j \in 1..(i - 1) :
          approved[j].appId = approved[i].appId =>
             /\ approved[j].loginId = approved[i].loginId
             /\ approved[j].loginKey = approved[i].loginKey
             /\ ~approved[i].created

C13_Witness ==
  /\ Len(approved) = 2
  /\ approved[1].appId = "app" /\ approved[2].appId = "app"
  /\ approved[1].created /\ ~approved[2].created
  /\ approved[1].loginId = approved[2].loginId
  /\ Len(AppLogins(tTree, "app")) = 1
  /\ Len(tTree.children) = 1

RECURSIVE TreeNodes(_), TreeNodesFrom(_, _)

\* all nodes of a tree
TreeNodes(node) == << node >> \o TreeNodesFrom(Children(node), 1)

TreeNodesFrom(cs, i) ==
  IF i > Len(cs) THEN << >>
  ELSE TreeNodes(cs[i]) \o TreeNodesFrom(cs, i + 1)

\* the boxes of one stash node
NodeBoxes(node) ==
  {node[f] : f \in (DOMAIN node) \cap BoxFields}
    \cup (IF Has(node, "keyBoxes")
            THEN {node.keyBoxes[i] : i \in 1..Len(node.keyBoxes)}
            ELSE {})

TreeBoxes(tree) ==
  UNION {NodeBoxes(TreeNodes(tree)[i]) : i \in 1..Len(TreeNodes(tree))}

TreeIds(tree) ==
  {TreeNodes(tree)[i].loginId : i \in 1..Len(TreeNodes(tree))}

\* the nodes of the stash that are not on the way from the root to the appId
OffPath(stash, appId) ==
  {n \in 1..Len(TreeNodes(stash)) :
     Len(AppLogins(TreeNodes(stash)[n], appId)) = 0}

RECURSIVE IsPathTo(_, _)

\* the tree is one chain of nodes that ends at the node of the appId
IsPathTo(node, appId) ==
  IF node.appId = appId THEN Len(Children(node)) = 0
  ELSE Len(Children(node)) = 1 /\ IsPathTo(node.children[1], appId)

\* C14: the stash in the reply of approveLoginRequest is the chain of nodes
\* from the root to the login of the appId; no node, no box and no child of
\* a subtree off that way is in it, and beside the stash the reply has the
\* appId and the loginKey of the requested login only.
C14_Sanitized ==
  DOMAIN reply # {} =>
     /\ DOMAIN reply = {"appId", "loginKey", "loginStash"}
     /\ reply.loginKey
          = base64stringify(findAppLogin(tTree, reply.appId).loginKey)
     /\ IsPathTo(reply.loginStash, reply.appId)
     /\ TreeIds(reply.loginStash) \subseteq TreeIds(tStash)
     /\ \A n \in OffPath(tStash, reply.appId) :
          /\ TreeNodes(tStash)[n].loginId \notin TreeIds(reply.loginStash)
          /\ NodeBoxes(TreeNodes(tStash)[n])
               \cap TreeBoxes(reply.loginStash) = {}

C14_Witness ==
  /\ DOMAIN reply # {}
  /\ reply.appId = "app"
  /\ Len(TreeNodes(tStash)) = 4
  /\ Len(tStash.children) = 2
  /\ Len(AppLogins(tStash, "deep")) = 1
  /\ Len(TreeNodes(reply.loginStash)) = 2
  /\ Cardinality(OffPath(tStash, "app")) = 2
  /\ IsPathTo(reply.loginStash, "app")

\* C19: when the parentBox of a child of the stash does not decrypt,
\* loginWithKey with the loginKey of the account still gives a login tree:
\* it has, in order, every child whose parentBox is sound, each with the
\* loginKey it was made with, and only the damaged child is missing.
C19_PartialTree ==
  (keyLogin.tried /\ keyLogin.secret = tTree.loginKey) =>
     /\ keyLogin.ok
     /\ keyLogin.loginKey = tTree.loginKey
     /\ [i \in 1..Len(keyLogin.children) |-> keyLogin.children[i].loginId]
          = SelectSeq([i \in 1..Len(Children(tStash)) |->
                         IF i \in corrupted THEN << >>
                         ELSE tStash.children[i].loginId],
                      LAMBDA id : id # << >>)
     /\ \A i \in 1..Len(keyLogin.children) :
          /\ keyLogin.children[i].loginKey
               = findAppLogin(tTree, keyLogin.children[i].appId).loginKey
          /\ Len(keyLogin.children[i].children)
               = Len(Children(findAppLogin(tTree,
                                           keyLogin.children[i].appId)))

C19_Witness ==
  /\ keyLogin.tried /\ keyLogin.secret = tTree.loginKey
  /\ keyLogin.ok
  /\ corrupted = {1}
  /\ Len(tStash.children) = 2
  /\ Len(keyLogin.children) = 1
  /\ keyLogin.children[1].loginId = tStash.children[2].loginId
  /\ Len(keyLogin.children[1].children) = 1

\* ------------------------------------------------------------------------
\* Properties of the calibration
\* ------------------------------------------------------------------------
\* C15: calibration never fails and stays in bounds.  Whatever the salt, the
\* benchmark (0 included) and the target, the result has n = 131072, r = 8
\* and 1 <= p <= 64; with target 2000 a benchmark of 0 or of 1 gives p = 64.
C15_InBounds ==
  cpc = "done" =>
     /\ snrp.n = 131072
     /\ snrp.r = 8
     /\ snrp.p \in 1..64
     /\ snrp.salt_hex = base16stringify(calArgs.salt)
     /\ (calArgs.targetMs = 2000 /\ calArgs.benchMs \in {0, 1}) =>
          snrp.p = 64

C15_Witness ==
  /\ cpc = "done"
  /\ calArgs.benchMs = 0
  /\ calArgs.targetMs = 2000
  /\ snrp.p = 64
  /\ snrp.n = 131072

\* the p in 1..64 whose estimated time is within the target
FittingP ==
  {q \in MinP..MaxP :
     EstimatedMs(snrp.n, snrp.r, q, calArgs.benchMs) <= calArgs.targetMs}

C18_CachedPin ==
  pinCheck.asked =>
     IF Has(AccountLogin(pinCheck.account), "pin")
       THEN /\ pinCheck.how = "cached"
            /\ pinCheck.result
                 = (pinCheck.pin = AccountLogin(pinCheck.account).pin)
       ELSE pinCheck.how = "checkPin2"

C18_Witness ==
  /\ pinCheck.asked
  /\ pinCheck.account = "newAccount"
  /\ Has(loginTree, "pin")
  /\ pinCheck.pin # loginTree.pin
  /\ pinCheck.how = "cached"
  /\ pinCheck.result = FALSE

\* ------------------------------------------------------------------------
\* Properties of requestPlusultraLogin
\* ------------------------------------------------------------------------
Settled(d) == d.made # "pending"

\* C20 as stated, last part: after a remote account approved the request,
\* onLogin is called without an error.
C20_AsStated ==
  \A i \in 1..Len(deliveries) :
     (deliveries[i].kind = "login" /\ Settled(deliveries[i])) =>
        (Len(deliveries[i].calls) = 1 /\ deliveries[i].calls[1].err = "")

\* C20, amended: each result handed to the pending request leads to exactly
\* one call of the caller's onLogin, never two, with an error and no account
\* (the login failed or makeAccount failed) or with no error and an account,
\* never with both; after a remote account approved the request and
\* makeAccount succeeded, the call is the one without an error.
C20_OnLoginOnce ==
  \A i \in 1..Len(deliveries) :
     /\ Len(deliveries[i].calls) <= 1
     /\ Settled(deliveries[i]) => Len(deliveries[i].calls) = 1
     /\ \A c \in 1..Len(deliveries[i].calls) :
          /\ (deliveries[i].calls[c].err = "")
               # (deliveries[i].calls[c].account = "")
          /\ deliveries[i].kind = "error" =>
               deliveries[i].calls[c] = ErrorCall(deliveries[i].err)
          /\ deliveries[i].made = "failed" =>
               deliveries[i].calls[c] = ErrorCall(deliveries[i].err)
          /\ deliveries[i].made = "ok" =>
               (approvals > 0
                  /\ deliveries[i].calls[c] = AccountCall("account"))

C20_Witness ==
  /\ epc = "pending"
  /\ onLoginThrows
  /\ approvals = 1
  /\ Len(deliveries) = 2
  /\ deliveries[1].kind = "error"
  /\ deliveries[2].made = "ok"
  /\ deliveries[2].calls = << AccountCall("account") >>

\* ------------------------------------------------------------------------
\* Properties of syncRequest
\* ------------------------------------------------------------------------
Failed(fetch) == fetch.outcome.kind # "json"

\* C21: syncRequest asks the sync servers in the order of the list, the
\* first one first, and the next one only after the one before failed
\* (unreachable, or a reply that is not JSON); it makes at most one fetch per
\* server, two in all; it resolves with the JSON of the first server that
\* gives some and asks no other; it rejects only when every server failed,
\* with the error of the last one.
C21_ServersInOrder ==
  /\ Len(fetches) <= Len(syncServers)
  /\ \A i \in 1..Len(fetches) :
       /\ fetches[i].uri = << syncServers[i], syncArgs.path >>
       /\ i < Len(fetches) => Failed(fetches[i])
  /\ spc = "fetching" =>
       /\ serverIndex = Len(fetches) + 1
       /\ serverIndex <= Len(syncServers)
       /\ \A i \in 1..Len(fetches) : Failed(fetches[i])
  /\ spc = "resolved" =>
       /\ fetches # << >>
       /\ ~Failed(fetches[Len(fetches)])
       /\ syncResult = [json |-> fetches[Len(fetches)].outcome.json]
  /\ spc = "rejected" =>
       /\ Len(fetches) = Len(syncServers)
       /\ \A i \in 1..Len(fetches) : Failed(fetches[i])
       /\ syncResult = FetchError(fetches[Len(fetches)].outcome, syncArgs.path)

C21_Witness ==
  /\ spc = "resolved"
  /\ Len(fetches) = 2
  /\ fetches[1].outcome.kind = "text"
  /\ fetches[2].outcome.kind = "json"

\* ------------------------------------------------------------------------
\* Properties of getMaxSpendable
\* ------------------------------------------------------------------------
\* the amounts within the balance that makeSpend accepts
Spendable == {m \in 1..balance : MakeSpendGood(m)}

LargestSpendable ==
  IF Spendable = {} THEN 0
  ELSE CHOOSE m \in Spendable : \A other \in Spendable : other <= m

\* the makeSpend calls that have settled
SpendsSettled == IF mpc = "spending" THEN Len(spends) - 1 ELSE Len(spends)

\* C22: with an engine whose makeSpend accepts the amounts up to a threshold
\* and no other, getMaxSpendable resolves with the largest amount within the
\* balance that makeSpend accepts, with 0 when it accepts no positive amount,
\* and never with more than the balance; during the search min (included)
\* stays below max (excluded), and the makeSpend calls are finitely many:
\* each one makes the range narrower.
C22_MaxSpendable ==
  /\ mpc # "idle" =>
       /\ 0 <= range.min
       /\ range.min < range.max
       /\ range.max <= balance + 1
       /\ SpendsSettled + (range.max - range.min) <= balance + 1
       /\ \A i \in 1..Len(spends) : spends[i] \in 1..balance
  /\ mpc = "spending" => (range.min < range.mid /\ range.mid < range.max)
  /\ mpc = "done" =>
       /\ maxSpendable = LargestSpendable
       /\ maxSpendable <= balance

C22_Witness ==
  /\ mpc = "done"
  /\ balance = 11
  /\ threshold = 7
  /\ maxSpendable = 7
  /\ Len(spends) >= 3

\* ------------------------------------------------------------------------
\* Properties of the throttled callbacks
\* ------------------------------------------------------------------------
TimersOf(c) == {timer \in timers : timer.callback = c}

CallsOf(c) == SelectSeq(throttledCalls, LAMBDA call : call.callback = c)

RECURSIVE TxsOf(_)
TxsOf(list) ==
  IF list = << >> THEN << >> ELSE Head(list).txs \o TxsOf(Tail(list))

\* C24: a callback made by makeThrottledTxCallback loses and duplicates no
\* transaction: the transactions given to the real callback so far, followed
\* by the pending ones, are the transactions passed in, each once and in the
\* order of arrival; with no timer pending all of them have been given to
\* the real callback, those that waited in one batch when the timer fired.
C24_NothingLost ==
  \A c \in Callbacks :
     c[2] = "tx" =>
       /\ TxsOf(invocations[c]) \o throttled[c].pendingTxs = TxsOf(CallsOf(c))
       /\ ~throttled[c].delayCallback => throttled[c].pendingTxs = << >>
       /\ \A i, j \in 1..Len(TxsOf(invocations[c])) :
            i < j => TxsOf(invocations[c])[i].serial
                       < TxsOf(invocations[c])[j].serial

C24_Witness ==
  \E c \in Callbacks :
     /\ c[2] = "tx"
     /\ Len(CallsOf(c)) = 3
     /\ Len(invocations[c]) = 2
     /\ ~invocations[c][1].delayed
     /\ invocations[c][2].delayed
     /\ invocations[c][2].txs = CallsOf(c)[2].txs \o CallsOf(c)[3].txs
     /\ timers = {}

\* the argument of the last call of c so far
LastArg(c) == CallsOf(c)[Len(CallsOf(c))].arg

LatestKept ==
  \A c \in Callbacks :
     (c[2] = "value" /\ CallsOf(c) # << >>) =>
        IF throttled[c].delayCallback
          THEN throttled[c].finalCallbackArg = LastArg(c)
          ELSE /\ invocations[c] # << >>
               /\ invocations[c][Len(invocations[c])].arg = LastArg(c)

\* C25: a callback made by makeThrottledCallback delivers the latest value:
\* while an invocation is delayed only the argument of the most recent call
\* is kept, the delayed invocation gets the argument of the last call made
\* before the timer fired, and every call is in the end followed by an
\* invocation of the real callback.
C25_LatestValue ==
  /\ []LatestKept
  /\ \A c \in Callbacks :
       throttled[c].delayCallback ~> ~throttled[c].delayCallback

C25_Witness ==
  \E c \in Callbacks :
     /\ c[2] = "value"
     /\ Len(CallsOf(c)) = 3
     /\ Len(invocations[c]) = 2
     /\ invocations[c][2].delayed
     /\ invocations[c][2].arg = 3

\* no unit-test transaction was passed to a callback of the wallet
NoUnitTestTx(w) ==
  \A i \in 1..Len(throttledCalls) :
     (throttledCalls[i].callback[1] = w /\ throttledCalls[i].txs # << >>) =>
        Len(throttledCalls[i].txs[1].txid) >= 3

\* C26: the rate limit is lowered to 200 ms for the unit-test wallet (or for
\* unit-test transactions) only: the callbacks of every other wallet stay
\* throttled at 5000 ms, their timers are set with 5000 ms and two
\* consecutive calls of their real callback are 5000 ms apart, whatever
\* calls the callbacks of other wallets got.
C26_OtherWalletsKeepLimit ==
  \A c \in Callbacks :
     (c[1] # UnitTestWalletId /\ NoUnitTestTx(c[1])) =>
        /\ \A timer \in TimersOf(c) : timer.delay = DefaultRateLimitMs
        /\ \A i \in 1..Len(invocations[c]) :
             i > 1 => invocations[c][i].time - invocations[c][i - 1].time
                        >= DefaultRateLimitMs

\* ------------------------------------------------------------------------
\* Properties of onTransactionsChanged
\* ------------------------------------------------------------------------
NoTxEffect ==
  /\ txDispatched = << >>
  /\ txSetups = << >>
  /\ txListenerCalls = << >>

\* C27: onTransactionsChanged drops a batch as a whole when a transaction in
\* it fails the sanity check of the types: the error goes to onError, once,
\* and for no transaction of the batch, the ones before the bogus one
\* included, is an action dispatched, a metadata file set up or a listener
\* called; a batch that is absent is ignored with no error.
C27_BatchDropped ==
  /\ (\E i \in 1..Len(lastTxs) : Bogus(lastTxs[i]) \/ lastTxs[i].isNull) =>
        NoTxEffect
  /\ (/\ \E i \in 1..Len(lastTxs) : Bogus(lastTxs[i])
      /\ \A i \in 1..Len(lastTxs) : ~lastTxs[i].isNull) =>
        (Len(txErrors) = 1 /\ ~txThrown)
  /\ batches = "absent" =>
        (txErrors = << >> /\ ~txThrown /\ NoTxEffect)

C27_Witness ==
  /\ Len(lastTxs) = 2
  /\ ~Bogus(lastTxs[1])
  /\ ~lastTxs[1].same
  /\ lastTxs[1].txid = "c"
  /\ Bogus(lastTxs[2])
  /\ Len(txErrors) = 1
  /\ NoTxEffect

\* ------------------------------------------------------------------------
\* Properties of the order of approveLoginRequest
\* ------------------------------------------------------------------------
ApproveOrder ==
  << "syncLogin", "ensureAccountExists", "findAppLogin", "loginStore.load",
     "sanitizeLoginStash", "sendLobbyReply", "replySent", "syncLogin",
     "syncLogin" >>

Count(log, step) == Cardinality({i \in 1..Len(log) : log[i] = step})

\* C28: approveLoginRequest keeps one order: the login is synced and the app
\* login ensured before the stash is loaded and sanitized, and the reply is
\* sent after that; with the requested login missing it rejects and sends no
\* reply; a follow-up sync is made only after the reply was sent, the second
\* one only after the first one succeeded; a follow-up sync that fails goes
\* to onError and leaves the result of approve as it was.
C28_ApproveOrder ==
  /\ Len(approveLog) <= Len(ApproveOrder)
  /\ approveLog = SubSeq(ApproveOrder, 1, Len(approveLog))
  /\ approveResult = "Failed to create the requested login object" =>
       Count(approveLog, "sendLobbyReply") = 0
  /\ (approveTimers # << >> \/ Count(approveLog, "syncLogin") > 1) =>
       (Count(approveLog, "replySent") = 1 /\ approveResult = "resolved")
  /\ (Count(approveLog, "syncLogin") = 3
        \/ approveTimers = << SecondSyncDelayMs >>) =>
       \A i \in 1..Len(approveErrors) : approveErrors[i].sync = 2
  /\ approveErrors # << >> =>
       (approveResult = "resolved" /\ apc = "end" /\ approveTimers = << >>)
  /\ Len(approveErrors) <= 1
  /\ Len(approveTimers) <= 1

C28_Witness ==
  /\ apc = "end"
  /\ approveResult = "resolved"
  /\ Count(approveLog, "syncLogin") = 3
  /\ approveErrors = << [sync |-> 2, error |-> "NetworkError"] >>

\* ------------------------------------------------------------------------
\* Properties of getExchangeRate
\* ------------------------------------------------------------------------
SameRate(a, b) == a.num * b.den = b.num * a.den

\* the walk along the pairs of the given indices, from a currency: where it
\* ends, what it went through, its rate and cost; ok: each pair starts
\* where the walk is and leads to a currency not gone through
RECURSIVE Walk(_, _, _)
Walk(pairs, fromCurrency, indices) ==
  IF indices = << >>
    THEN [ok |-> TRUE, at |-> fromCurrency, seen |-> {fromCurrency},
          rate |-> Rate(1, 1), cost |-> 0]
  ELSE Only({ IF ~before.ok \/ ~Touches(pairs[indices[Len(indices)]], before.at)
                   \/ OtherEnd(pairs[indices[Len(indices)]], before.at)
                        \in before.seen
                THEN [before EXCEPT !.ok = FALSE]
                ELSE [ok |-> TRUE,
                      at |-> OtherEnd(pairs[indices[Len(indices)]], before.at),
                      seen |-> before.seen
                                 \cup {OtherEnd(pairs[indices[Len(indices)]],
                                                before.at)},
                      rate |-> ThroughPair(
                                 before.rate, pairs[indices[Len(indices)]],
                                 pairs[indices[Len(indices)]].fromCurrency
                                    # before.at),
                      cost |-> before.cost
                                 + getPairCost(
                                     pairs[indices[Len(indices)]].source, 0,
                                     pairs[indices[Len(indices)]].fromCurrency
                                        # before.at)] :
              before \in {Walk(pairs, fromCurrency,
                               SubSeq(indices, 1, Len(indices) - 1))} })

\* the routes from one currency to another: at most three pairs
RoutesBetween(pairs, fromCurrency, toCurrency) ==
  { walk \in { Walk(pairs, fromCurrency, indices) :
               indices \in UNION {[1..n -> 1..Len(pairs)] : n \in 0..3} } :
      walk.ok /\ walk.at = toCurrency }

CheapestRoutes(pairs, fromCurrency, toCurrency) ==
  { walk \in RoutesBetween(pairs, fromCurrency, toCurrency) :
      \A other \in RoutesBetween(pairs, fromCurrency, toCurrency) :
         walk.cost <= other.cost }

Asked == exchangeQuery # << >>

\* C29 as stated, in part: getExchangeRate returns 1 when fromCurrency equals
\* toCurrency.
C29_AsStated ==
  (Asked /\ exchangeQuery[1] = exchangeQuery[2]) =>
     SameRate(exchangeRate, Rate(1, 1))

\* C29, amended: getExchangeRate returns 0 when an endpoint has no routes, also
\* when the two are the same currency, and when no route connects them;
\* otherwise it returns the rate along a route of least total cost (times
\* pair.rate for a forward pair, divided by it for an inverse one), 1 when
\* the two are the same currency; a route goes through no currency twice.
C29_BestRoute ==
  Asked =>
    IF ~HasRoutes(exchangePairs, exchangeQuery[1])
         \/ ~HasRoutes(exchangePairs, exchangeQuery[2])
         \/ RoutesBetween(exchangePairs, exchangeQuery[1], exchangeQuery[2]) = {}
      THEN SameRate(exchangeRate, Rate(0, 1))
      ELSE /\ \E walk \in CheapestRoutes(exchangePairs, exchangeQuery[1],
                                         exchangeQuery[2]) :
                SameRate(exchangeRate, walk.rate)
           /\ exchangeQuery[1] = exchangeQuery[2] =>
                SameRate(exchangeRate, Rate(1, 1))

C29_Witness ==
  /\ Len(exchangePairs) = Len(PairsFetched)
  /\ exchangeQuery = << "BTC", "EUR" >>
  /\ exchangeRate = Rate(1, 7)

\* ------------------------------------------------------------------------
\* Properties of customTokens
\* ------------------------------------------------------------------------
OnePerCode ==
  \A i, j \in 1..Len(customTokens) :
     customTokens[i].currencyCode = customTokens[j].currencyCode => i = j

\* the entries of the list before that have another currencyCode than the
\* action's token, in their order
Kept ==
  SelectSeq(customTokens,
            LAMBDA info : info.currencyCode # lastAction'.payload.currencyCode)

TokensStep ==
  IF lastAction'.type = "ADDED_CUSTOM_TOKEN"
    THEN /\ Len(customTokens') = Len(Kept) + 1
         /\ customTokens'[Len(customTokens')] = lastAction'.payload
         /\ SubSeq(customTokens', 1, Len(Kept)) = Kept
    ELSE customTokens' = customTokens

\* C30: after any sequence of actions customTokens has at most one entry for
\* a currencyCode: ADDED_CUSTOM_TOKEN takes out the entry of the same
\* currencyCode, if any, and puts the new token at the end, the others
\* keeping their order; every other action leaves the list as it is.
C30_OnePerCode == []OnePerCode /\ [][TokensStep]_<< customTokens, lastAction >>

C30_Witness ==
  /\ Len(customTokens) = 3
  /\ lastAction.type = "ADDED_CUSTOM_TOKEN"
  /\ customTokens[3] = [currencyCode |-> "TKA", multiplier |-> "100"]
  /\ customTokens[1].currencyCode = "TKC"

====
